---------------------------- MODULE Spec2Model ----------------------------
(***************************************************************************)
(* A model of OnlineHub's script.js: the embed player (EnhancedVideoPlayer),*)
(* the catalog (EnhancedVideoManager), the record-store client              *)
(* (AirtableService) and the availability probe (VideoAvailabilityChecker). *)
(* script.js holds two generations of every class; the later definitions    *)
(* (line 1536 onwards) are the ones modelled.                               *)
(***************************************************************************)
EXTENDS Naturals, Integers, Sequences, FiniteSets, TLC

VARIABLES
    \* EnhancedVideoManager
    allVideos,          \* this.allVideos: sequence of catalog entries
    filteredVideos,     \* this.filteredVideos
    currentVideoId,     \* this.currentVideoId
    recentlyPlayed,     \* this.recentlyPlayed: most recent first
    currentFilter,      \* this.currentFilters.platform
    currentSearchTerm,  \* this.currentSearchTerm
    currentSortOption,  \* this.currentSortOption
    isLoading,          \* this.isLoading
    now,                \* the clock read by new Date()
    \* VideoAnalytics
    stats,              \* this.stats: by video id, the counts the popularity score reads
    \* EnhancedVideoPlayer and the viewer (iframe / media element)
    currentEmbedIndex,  \* this.currentEmbedIndex (0-based)
    currentVideoData,   \* this.currentVideoData
    fallbackVisible,    \* fallbackMessage.style.display = 'flex'
    playerSrc,          \* videoPlayer.src
    playerShown,        \* videoPlayer.style.display = 'block'
    handlerOwner,       \* the loadVideo call whose onLoad/onError closures are installed
    timers,             \* loadVideo calls whose loadingTimeout is pending
    probing,            \* loadVideo calls suspended in await checkVideoAvailability
    availCache,         \* VideoAvailabilityChecker.cache, by video id
    probe,              \* the checkVideoAvailability calls: argument, fetch awaited, answer
    viewerPending,      \* the iframe owes a load or error event for its last src
    mediaEl,            \* the <video> element created by loadDirectVideo
    notification,       \* the last player notification
    nSessions,          \* number of loadVideo calls so far
    sessVideo,          \* the video argument of each loadVideo call
    \* history of the player since the latest loadVideo call
    srcLog,             \* writes of videoPlayer.src
    evLog,              \* events handled, with the call whose closure ran
    outLog,             \* outcomes shown to the user (Loaded / Failed)
    supersededLive,     \* calls that had shown no outcome when the next call came
    \* AirtableService and the remote record store
    storeRecords,       \* the records held by the remote table
    nextRecordId,       \* the store's id counter
    req,                \* the handleRequest call of each operation
    loadPc,             \* loadVideos: where it is suspended
    addPc,              \* addCustomVideo: where it is suspended
    addParsed,          \* addCustomVideo: the parsed video being admitted
    videoHashes,        \* DuplicatePreventionService.videoHashes (keys)
    lastCheck,          \* the candidate and the answer of the latest isDuplicate call
    lastParse,          \* the argument and the outcome of the latest parseURL call
    storeCache          \* AirtableService.cache 'all-videos'

managerVars == <<allVideos, filteredVideos, currentVideoId, recentlyPlayed,
                 currentFilter, currentSearchTerm, currentSortOption, isLoading, now>>
playerVars  == <<currentEmbedIndex, currentVideoData, fallbackVisible, playerSrc,
                 playerShown, handlerOwner, timers, probing, availCache, probe,
                 viewerPending, mediaEl, notification, nSessions, sessVideo>>
historyVars == <<srcLog, evLog, outLog, supersededLive>>
analyticsVars == <<stats>>
storeVars   == <<storeRecords, nextRecordId, req, loadPc, addPc, addParsed,
                 videoHashes, lastCheck, lastParse, storeCache>>
vars == <<managerVars, playerVars, historyVars, storeVars, analyticsVars>>

-----------------------------------------------------------------------------
(* Bounds of the model *)

\* loadVideo calls explored in one behaviour
MaxLoads == 2
\* embed candidates of the longest entry of the player's catalog
MaxCandidates == 3
\* the remote table holds at most this many records
MaxStoreRecords == 3
\* entries of the catalog the ledger is played against (more than the
\* ledger's capacity)
MaxLedgerEntries == 52
\* loadVideoById calls explored after the ledger's initial state
MaxPlays == 3
\* videos admitted by the duplicate check in a behaviour
MaxAdmitted == 3
\* characters between the prefix and the suffix of a parsed string
MaxBodyLength == 2
\* checkVideoAvailability calls explored in one behaviour
MaxProbes == 2

(* Program constants *)

\* this.recentlyPlayed.slice(0, 50)
RecentCapacity == 50
\* AirtableService.retryCount
RetryCount == 3
\* CONFIG.SEARCH.MIN_SEARCH_LENGTH
MinSearchLength == 2

-----------------------------------------------------------------------------
(* Small helpers *)

Min(a, b) == IF a < b THEN a ELSE b
Range(s) == {s[i] : i \in 1..Len(s)}

-----------------------------------------------------------------------------
(* Catalog entries *)

\* A duration field holds either a text or a Number.
TextDuration(text) == [number |-> FALSE, text |-> text, value |-> 0]
NumberDuration(n) == [number |-> TRUE, text |-> <<>>, value |-> n]

\* '--:--'
NoDuration == TextDuration(<<"-", "-", ":", "-", "-">>)

\* A video object.  Text fields are sequences of characters, so that search,
\* hashing and similarity can look inside them; a field the object does
\* not have is "none" (id, status), the empty text or 0 (viewCount).
\* Times are integers, -1 standing for no time.  URLs are pairs of a tag
\* and a payload.
Video(id, videoId, type, status, title, description, author, urls, originalUrl) ==
    [id |-> id, videoId |-> videoId, type |-> type, status |-> status,
     title |-> title, description |-> description, author |-> author,
     category |-> <<"g", "e", "n", "e", "r", "a", "l">>, tags |-> <<>>,
     embedUrls |-> urls, originalUrl |-> originalUrl,
     duration |-> NoDuration, createdAt |-> -1, viewCount |-> 0]

\* a catalog entry of which only the player's fields matter
Entry(id, type, status, title, urls) ==
    [Video(id, <<>>, type, status, title, <<>>, <<>>, urls, <<>>)
       EXCEPT !.createdAt = 0]

EmbedList(tag, n) == [i \in 1..n |-> <<tag, i>>]

NoVideo == Entry("null", "none", "none", <<>>, <<>>)
NoSrc == <<"about:blank", 0>>
NoMedia == [sess |-> 0, src |-> NoSrc, state |-> "none"]

\* The catalog the player runs against: two embeddable entries with
\* different numbers of candidates and one direct media file.
PlayerCatalog ==
    << [Entry("recA", "youtube", "active", <<"a">>, EmbedList("A", MaxCandidates - 1))
          EXCEPT !.viewCount = 3],
       Entry("recB", "vimeo", "active", <<"b">>, EmbedList("B", MaxCandidates)),
       Entry("recD", "direct", "active", <<"d">>, EmbedList("D", 1)) >>

\* let embedUrls = video.embedUrls || [video.url || ""]
EmbedUrlsOf(video) == video.embedUrls

-----------------------------------------------------------------------------
(* EnhancedVideoManager: recently played, loadVideoById *)

RemoveAtKeeping(s, i) == s

\* splice(i, 1)
RemoveAt(s, i) == SubSeq(s, 1, i - 1) \o SubSeq(s, i + 1, Len(s))

\* findIndex: the first position whose record has the id, 0 when none
FindIndexById(s, id) ==
    IF \E i \in 1..Len(s) : s[i].id = id
    THEN CHOOSE i \in 1..Len(s) :
            /\ s[i].id = id
            /\ \A j \in 1..(i - 1) : s[j].id # id
    ELSE 0

\* getRecentlyPlayedData(videoId)?.playCount || 0
PlayCountIn(rp, id) ==
    LET i == FindIndexById(rp, id) IN IF i = 0 THEN 0 ELSE rp[i].playCount

addToRecentlyPlayedUncapped(rp, id, t) ==
    <<[id |-> id, playedAt |-> t, playCount |-> 1]>>
        \o SelectSeq(rp, LAMBDA r : r.id # id)

\* addToRecentlyPlayed: the existing record is spliced out BEFORE the new
\* record's playCount is read from the ledger (the object literal is
\* evaluated after the splice).
addToRecentlyPlayed(rp, id, t) ==
    LET i == FindIndexById(rp, id)
        spliced == IF i = 0 THEN rp ELSE RemoveAt(rp, i)
        rec == [id |-> id, playedAt |-> t, playCount |-> PlayCountIn(spliced, id) + 1]
        unshifted == <<rec>> \o spliced
    IN SubSeq(unshifted, 1, Min(RecentCapacity, Len(unshifted)))

\* the fields of the manager that loadVideoById reads and writes
ManagerNow ==
    [view |-> filteredVideos, currentVideoId |-> currentVideoId,
     recentlyPlayed |-> recentlyPlayed, now |-> now]

\* those fields after loadVideoById(id): only an id of the filtered view is
\* selected
Selected(m, id) ==
    IF FindIndexById(m.view, id) # 0
    THEN [m EXCEPT !.currentVideoId = id,
                   !.recentlyPlayed = addToRecentlyPlayed(m.recentlyPlayed, id, m.now),
                   !.now = m.now + 1]
    ELSE m

\* loadVideoById(id) called when the manager's fields are m
loadVideoByIdIn(m, id) ==
    /\ currentVideoId' = Selected(m, id).currentVideoId
    /\ recentlyPlayed' = Selected(m, id).recentlyPlayed
    /\ now' = Selected(m, id).now

loadVideoById(id) == loadVideoByIdIn(ManagerNow, id)

-----------------------------------------------------------------------------
(* VideoAnalytics *)

\* the object getVideoStats returns for a video the Map does not hold; of
\* its fields, those calculatePopularityScore reads (lastPlayed: the time
\* of the last play, -1 for null)
NoStats == [playCount |-> 0, completionCount |-> 0, lastPlayed |-> -1]

\* getVideoStats(videoId) on the Map st
getVideoStats(st, id) == IF id \in DOMAIN st THEN st[id] ELSE NoStats

\* updateVideoStats: 'load', 'error' and 'seek' count in fields the score
\* does not read
updateVideoStats(st, id, event, t) ==
    LET old == getVideoStats(st, id)
        new == CASE event = "play" ->
                      [old EXCEPT !.playCount = @ + 1, !.lastPlayed = t]
                 [] event = "complete" -> [old EXCEPT !.completionCount = @ + 1]
                 [] OTHER -> old
    IN [i \in DOMAIN st \cup {id} |-> IF i = id THEN new ELSE st[i]]

\* trackVideoEvent(event, video) at time t
trackVideoEventAt(event, video, t) == stats' = updateVideoStats(stats, video.id, event, t)

trackVideoEvent(event, video) == trackVideoEventAt(event, video, now)

\* Math.max(0, 100 - days since lastPlayed) right after a play: the days
\* are a fraction of one within a behaviour of the model, and the bonus
\* is taken at its upper end
RecencyBonus == 100

\* VideoAnalytics.calculatePopularityScore(video)
analyticsPopularityScore(st, id) ==
    LET s == getVideoStats(st, id)
    IN s.playCount * 10 + s.completionCount * 20
         + (IF s.lastPlayed # -1 THEN RecencyBonus ELSE 0)

\* EnhancedVideoManager's score

\* video.viewCount || 0
ViewCountOf(video) == video.viewCount

\* calculatePopularityScore(video), in halves (twice the number returned):
\* viewCount + (playCount * 10) + (analyticsScore * 0.5)
calculatePopularityScore(video, rp, st) ==
    2 * ViewCountOf(video) + 2 * (PlayCountIn(rp, video.id) * 10)
        + analyticsPopularityScore(st, video.id)

-----------------------------------------------------------------------------
(* EnhancedVideoPlayer *)

Ev(kind, s) == [kind |-> kind, sess |-> s]
SrcWrite(s, url) == [sess |-> s, url |-> url]

EmbedIndexKept(i) == i

\* loadVideo: this.currentEmbedIndex = 0
EmbedIndexAtLoad(i) == 0

\* A handleEmbedError that skips a candidate
NextEmbedIndexSkipping(i) == i + 2

\* handleEmbedError: this.currentEmbedIndex++
NextEmbedIndex(i) == i + 1

\* What loadVideo does with the probe's answer (after the await).  fb, ev,
\* src and out are the values the caller leaves in fallbackVisible and in
\* the history when the answer arrives.
ProbeContinue(s, v, ok, fb, ev, src, out) ==
    /\ evLog' = Append(ev, Ev(IF ok THEN "probe_ok" ELSE "probe_fail", s))
    /\ IF ~ok
       THEN \* showFallbackMessage(video); notification; return
            /\ fallbackVisible' = TRUE
            /\ notification' = "may_not_be_available"
            /\ outLog' = Append(out, Ev("Failed", s))
            /\ srcLog' = src
            /\ UNCHANGED <<timers, handlerOwner, playerSrc, viewerPending, playerShown>>
       ELSE \* setTimeout; onload/onerror; src = embedUrls[0]
            /\ timers' = timers \cup {s}
            /\ handlerOwner' = s
            /\ playerSrc' = EmbedUrlsOf(v)[1]
            /\ viewerPending' = TRUE
            /\ playerShown' = TRUE
            /\ fallbackVisible' = fb
            /\ srcLog' = Append(src, SrcWrite(s, EmbedUrlsOf(v)[1]))
            /\ outLog' = out
            /\ UNCHANGED notification

\* loadDirectVideo(video, embedUrls[0])
loadDirectVideo(s, v) ==
    /\ mediaEl' = [sess |-> s, src |-> EmbedUrlsOf(v)[1], state |-> "loading"]
    /\ playerShown' = FALSE
    /\ notification' = "loaded_direct"
    /\ outLog' = <<Ev("Loaded", s)>>

\* loadVideo(video), up to its first suspension.  A cached probe answer
\* resumes the call in the same turn (no task can run in between).
\* The call finds the manager's fields as m.
LoadVideoIn(v, m) ==
    LET s == nSessions + 1 IN
    /\ nSessions < MaxLoads
    /\ nSessions' = s
    /\ sessVideo' = Append(sessVideo, v)
    /\ supersededLive' =
          IF nSessions > 0 /\ ~\E i \in 1..Len(outLog) : outLog[i].sess = nSessions
          THEN supersededLive \cup {nSessions} ELSE supersededLive
    /\ trackVideoEventAt("load", v, m.now)
    /\ loadVideoByIdIn(m, v.id)
    /\ currentEmbedIndex' = EmbedIndexAtLoad(currentEmbedIndex)
    /\ currentVideoData' = v
    /\ IF v.type = "direct"
       THEN /\ loadDirectVideo(s, v)
            /\ fallbackVisible' = FALSE
            /\ srcLog' = <<>>
            /\ evLog' = <<>>
            /\ UNCHANGED <<timers, handlerOwner, playerSrc, viewerPending,
                           probing, availCache>>
       ELSE IF availCache[v.id] # "none"
       THEN /\ ProbeContinue(s, v, availCache[v.id] = "yes", FALSE, <<>>, <<>>, <<>>)
            /\ UNCHANGED <<probing, availCache, mediaEl>>
       ELSE /\ probing' = probing \cup {s}
            /\ fallbackVisible' = FALSE
            /\ srcLog' = <<>>
            /\ evLog' = <<>>
            /\ outLog' = <<>>
            /\ UNCHANGED <<timers, handlerOwner, playerSrc, viewerPending,
                           playerShown, availCache, mediaEl, notification>>
    /\ UNCHANGED probe

LoadVideo(v) ==
    /\ LoadVideoIn(v, ManagerNow)
    /\ UNCHANGED <<allVideos, filteredVideos, currentFilter, currentSearchTerm,
                   currentSortOption, isLoading>>
    /\ UNCHANGED storeVars

\* checkVideoAvailability resolves; the answer is cached and loadVideo resumes
ProbeDone(s, ok) ==
    /\ s \in probing
    /\ probing' = probing \ {s}
    /\ availCache' = [availCache EXCEPT ![sessVideo[s].id] = IF ok THEN "yes" ELSE "no"]
    /\ ProbeContinue(s, sessVideo[s], ok, fallbackVisible, evLog, srcLog, outLog)
    /\ UNCHANGED <<currentEmbedIndex, currentVideoData, mediaEl, nSessions, sessVideo,
                   supersededLive>>
    /\ UNCHANGED <<managerVars, storeVars, analyticsVars>>
    /\ UNCHANGED probe

\* setTimeout(() => this.cache.delete(cacheKey), 60000)
ExpireAvailability(id) ==
    /\ availCache[id] # "none"
    /\ availCache' = [availCache EXCEPT ![id] = "none"]
    /\ UNCHANGED <<currentEmbedIndex, currentVideoData, fallbackVisible, playerSrc,
                   playerShown, handlerOwner, timers, probing, viewerPending, mediaEl,
                   notification, nSessions, sessVideo>>
    /\ UNCHANGED <<managerVars, historyVars, storeVars, analyticsVars>>
    /\ UNCHANGED probe

\* the loadingTimeout callback: showFallbackMessage(video)
StallTimeout(s) ==
    /\ s \in timers
    /\ timers' = timers \ {s}
    /\ fallbackVisible' = TRUE
    /\ evLog' = Append(evLog, Ev("timeout", s))
    /\ outLog' = Append(outLog, Ev("Failed", s))
    /\ UNCHANGED <<currentEmbedIndex, currentVideoData, playerSrc, playerShown,
                   handlerOwner, probing, availCache, viewerPending, mediaEl,
                   notification, nSessions, sessVideo, srcLog, supersededLive>>
    /\ UNCHANGED <<managerVars, storeVars, analyticsVars>>
    /\ UNCHANGED probe

\* the iframe's load event runs the installed onLoad closure
ViewerLoad ==
    /\ viewerPending
    /\ handlerOwner # 0
    /\ viewerPending' = FALSE
    /\ timers' = timers \ {handlerOwner}
    /\ playerShown' = TRUE
    /\ notification' = "loaded"
    /\ evLog' = Append(evLog, Ev("load", handlerOwner))
    /\ outLog' = Append(outLog, Ev("Loaded", handlerOwner))
    /\ trackVideoEvent("play", sessVideo[handlerOwner])
    /\ UNCHANGED <<currentEmbedIndex, currentVideoData, fallbackVisible, playerSrc,
                   handlerOwner, probing, availCache, mediaEl, nSessions, sessVideo,
                   srcLog, supersededLive>>
    /\ UNCHANGED <<managerVars, storeVars>>
    /\ UNCHANGED probe

\* the iframe's error event runs the installed onError closure, which
\* calls handleEmbedError(video, embedUrls)
ViewerError ==
    LET s == handlerOwner
        urls == EmbedUrlsOf(sessVideo[s])
        idx == NextEmbedIndex(currentEmbedIndex)
    IN
    /\ viewerPending
    /\ handlerOwner # 0
    /\ timers' = timers \ {s}
    /\ currentEmbedIndex' = idx
    /\ evLog' = Append(evLog, Ev("error", s))
    /\ trackVideoEvent("error", sessVideo[s])
    /\ IF idx < Len(urls)
       THEN /\ playerSrc' = urls[idx + 1]
            /\ viewerPending' = TRUE
            /\ notification' = "trying_alternative"
            /\ srcLog' = Append(srcLog, SrcWrite(s, urls[idx + 1]))
            /\ UNCHANGED <<fallbackVisible, outLog>>
       ELSE /\ fallbackVisible' = TRUE
            /\ viewerPending' = FALSE
            /\ notification' = "could_not_load"
            /\ outLog' = Append(outLog, Ev("Failed", s))
            /\ UNCHANGED <<playerSrc, srcLog>>
    /\ UNCHANGED <<currentVideoData, playerShown, handlerOwner, probing, availCache,
                   mediaEl, nSessions, sessVideo, supersededLive>>
    /\ UNCHANGED <<managerVars, storeVars>>
    /\ UNCHANGED probe

\* the media element's play / error / ended listeners only record analytics
MediaEvent(kind) ==
    /\ mediaEl.sess # 0
    /\ \/ mediaEl.state = "loading" /\ kind \in {"play", "error"}
       \/ mediaEl.state = "play" /\ kind \in {"ended", "error"}
    /\ mediaEl' = [mediaEl EXCEPT !.state = kind]
    /\ trackVideoEvent(IF kind = "ended" THEN "complete" ELSE kind, sessVideo[mediaEl.sess])
    /\ UNCHANGED <<currentEmbedIndex, currentVideoData, fallbackVisible, playerSrc,
                   playerShown, handlerOwner, timers, probing, availCache,
                   viewerPending, notification, nSessions, sessVideo>>
    /\ UNCHANGED <<managerVars, historyVars, storeVars>>
    /\ UNCHANGED probe

-----------------------------------------------------------------------------
(* Text: a string is the sequence of its characters *)

\* the printable ASCII characters, code 32 first
Ascii ==
    <<" ", "!", "\"", "#", "$", "%", "&", "'", "(", ")", "*", "+", ",", "-",
    ".", "/", "0", "1", "2", "3", "4", "5", "6", "7", "8", "9", ":", ";", "<",
    "=", ">", "?", "@", "A", "B", "C", "D", "E", "F", "G", "H", "I", "J", "K",
    "L", "M", "N", "O", "P", "Q", "R", "S", "T", "U", "V", "W", "X", "Y", "Z",
    "[", "\\", "]", "^", "_", "(backquote)", "a", "b", "c", "d", "e", "f", "g", "h",
    "i", "j", "k", "l", "m", "n", "o", "p", "q", "r", "s", "t", "u", "v", "w",
    "x", "y", "z", "{", "|", "}", "~">>

\* charCodeAt, as a table
CodeOf == [c \in Range(Ascii) |-> 31 + CHOOSE i \in 1..Len(Ascii) : Ascii[i] = c]

\* a character outside Latin-1 (U+0434, code 1076), which has no upper case
CyrillicDe == "U+0434"
CyrillicDeCode == 1076

\* the characters of the model's texts
Chars == Range(Ascii) \cup {CyrillicDe}

CharCode(c) == IF c = CyrillicDe THEN CyrillicDeCode ELSE CodeOf[c]

\* toLowerCase on one character, as a table: codes 65..90 move to 97..122
LowerOf ==
    [c \in Range(Ascii) |->
        IF CodeOf[c] >= 65 /\ CodeOf[c] <= 90 THEN Ascii[CodeOf[c] + 32 - 31] ELSE c]

LowerChar(c) == IF c = CyrillicDe THEN c ELSE LowerOf[c]

toLowerCase(t) == [i \in 1..Len(t) |-> LowerChar(t[i])]

\* the first position at which pat occurs in t, 0 when it does not
IndexOf(t, pat) ==
    LET hits == {i \in 1..(Len(t) - Len(pat) + 1) : SubSeq(t, i, i + Len(pat) - 1) = pat}
    IN IF hits = {} THEN 0 ELSE CHOOSE i \in hits : \A j \in hits : i <= j

includes(t, pat) == IndexOf(t, pat) # 0

\* the longest run of characters outside stop that starts at position from
RunFrom(t, from, stop) ==
    LET ends == {e \in (from - 1)..Len(t) : \A k \in from..e : t[k] \notin stop}
        e == CHOOSE x \in ends : \A y \in ends : y <= x
    IN SubSeq(t, from, e)

\* the type strings, as text
TypeText(type) ==
    CASE type = "youtube" -> <<"y", "o", "u", "t", "u", "b", "e">>
      [] type = "youtube_playlist" -> <<"y", "o", "u", "t", "u", "b", "e", "_", "p", "l", "a", "y", "l", "i",
            "s", "t">>
      [] type = "vimeo" -> <<"v", "i", "m", "e", "o">>
      [] type = "direct" -> <<"d", "i", "r", "e", "c", "t">>
      [] OTHER -> <<"o", "t", "h", "e", "r">>

-----------------------------------------------------------------------------
(* UniversalVideoParser *)

Digits == {"0", "1", "2", "3", "4", "5", "6", "7", "8", "9"}

\* pat occurs in t at position i
StartsAt(t, i, pat) ==
    /\ i + Len(pat) - 1 <= Len(t)
    /\ SubSeq(t, i, i + Len(pat) - 1) = pat

\* url.match(/(?:p1|p2|...)([^stop]+)/)[1]: the capture of the leftmost
\* match of an alternation of literal prefixes, <<>> when there is no match
MatchAfterAny(t, prefixes, stop) ==
    LET hits == {i \in 1..Len(t) : \E k \in 1..Len(prefixes) :
                    /\ StartsAt(t, i, prefixes[k])
                    /\ RunFrom(t, i + Len(prefixes[k]), stop) # <<>>}
    IN IF hits = {} THEN <<>>
       ELSE LET i == CHOOSE x \in hits : \A y \in hits : x <= y
                k == CHOOSE x \in 1..Len(prefixes) :
                        /\ StartsAt(t, i, prefixes[x])
                        /\ RunFrom(t, i + Len(prefixes[x]), stop) # <<>>
                        /\ \A y \in 1..(x - 1) :
                              ~ /\ StartsAt(t, i, prefixes[y])
                                /\ RunFrom(t, i + Len(prefixes[y]), stop) # <<>>
            IN RunFrom(t, i + Len(prefixes[k]), stop)

Base64Alphabet ==
    <<"A", "B", "C", "D", "E", "F", "G", "H", "I", "J", "K", "L",
        "M", "N", "O", "P", "Q", "R", "S", "T", "U", "V", "W", "X",
        "Y", "Z", "a", "b", "c", "d", "e", "f", "g", "h", "i", "j",
        "k", "l", "m", "n", "o", "p", "q", "r", "s", "t", "u", "v",
        "w", "x", "y", "z", "0", "1", "2", "3", "4", "5", "6", "7",
        "8", "9", "+", "/">>

RECURSIVE Base64From(_, _)
\* base64 of the characters of t from position i on, without the padding
Base64From(t, i) ==
    IF i > Len(t) THEN <<>>
    ELSE LET b1 == CharCode(t[i])
             b2 == IF i + 1 <= Len(t) THEN CharCode(t[i + 1]) ELSE 0
             b3 == IF i + 2 <= Len(t) THEN CharCode(t[i + 2]) ELSE 0
             sextets == << b1 \div 4, (b1 % 4) * 16 + (b2 \div 16),
                           (b2 % 16) * 4 + (b3 \div 64), b3 % 64 >>
             n == IF i + 2 <= Len(t) THEN 4 ELSE IF i + 1 <= Len(t) THEN 3 ELSE 2
         IN [k \in 1..n |-> Base64Alphabet[sextets[k] + 1]] \o Base64From(t, i + 3)

\* btoa(url) throws an InvalidCharacterError when url holds a character
\* whose code is above 255
btoaThrows(url) == \E i \in 1..Len(url) : CharCode(url[i]) > 255

\* btoa(url).replace(/=/g, '') when btoa returns
btoa(url) == Base64From(url, 1)

\* a result of a matcher, before parseURL adds originalUrl; "null" in type
\* stands for the matcher's null
Parsed(videoId, type, title, description, urls) ==
    Video("none", videoId, type, "none", title, description, <<>>, urls, <<>>)

NoMatch == Parsed(<<>>, "null", <<>>, <<>>, <<>>)

TxtYouTubeVideo == <<"Y", "o", "u", "T", "u", "b", "e", " ", "V", "i", "d", "e", "o">>
TxtYouTubePlaylist == <<"Y", "o", "u", "T", "u", "b", "e", " ", "P", "l", "a", "y",
        "l", "i", "s", "t">>
TxtVimeoVideo == <<"V", "i", "m", "e", "o", " ", "V", "i", "d", "e", "o">>
TxtDirectVideo == <<"D", "i", "r", "e", "c", "t", " ", "V", "i", "d", "e", "o">>
TxtDirectVideoFile == <<"D", "i", "r", "e", "c", "t", " ", "V", "i", "d", "e", "o",
        " ", "F", "i", "l", "e">>
TxtCustomVideo == <<"C", "u", "s", "t", "o", "m", " ", "V", "i", "d", "e", "o">>
TxtUnknownSource == <<"V", "i", "d", "e", "o", " ", "f", "r", "o", "m", " ", "u",
        "n", "k", "n", "o", "w", "n", " ", "s", "o", "u", "r", "c", "e">>

\* what an oEmbed answer carries, and the titles of the store's first records
TxtOEmbedTitle == <<"C", "l", "i", "p">>
TxtOEmbedAuthor == <<"A", "n", "n">>
TxtAlpha == <<"A", "l", "p", "h", "a">>
TxtBeta == <<"B", "e", "t", "a">>

\* parseYouTube: the third pattern (music.youtube.com/watch?v=) is tried
\* after the first, which matches every URL the third matches
parseYouTube(url) ==
    LET stop == {"&", "?", "/", "#"}
        m1 == MatchAfterAny(url, << <<"y", "o", "u", "t", "u", "b", "e", ".", "c", "o", "m", "/",
        "w", "a", "t", "c", "h", "?", "v", "=">>, <<"y", "o", "u", "t", "u", ".", "b", "e", "/">>,
                                    <<"y", "o", "u", "t", "u", "b", "e", ".", "c", "o", "m", "/",
        "e", "m", "b", "e", "d", "/">>, <<"y", "o", "u", "t", "u", "b", "e", ".", "c", "o", "m", "/",
        "v", "/">>,
                                    <<"y", "o", "u", "t", "u", "b", "e", ".", "c", "o", "m", "/",
        "s", "h", "o", "r", "t", "s", "/">> >>, stop)
        m2 == MatchAfterAny(url, << <<"y", "o", "u", "t", "u", "b", "e", ".", "c", "o", "m", "/",
        "p", "l", "a", "y", "l", "i", "s", "t", "?", "l", "i", "s",
        "t", "=">> >>, stop)
        m3 == MatchAfterAny(url, << <<"m", "u", "s", "i", "c", ".", "y", "o", "u", "t", "u", "b",
        "e", ".", "c", "o", "m", "/", "w", "a", "t", "c", "h", "?",
        "v", "=">> >>, stop)
        videoId == IF m1 # <<>> THEN m1 ELSE IF m2 # <<>> THEN m2 ELSE m3
    IN IF videoId = <<>> THEN NoMatch
       ELSE IF includes(url, <<"p", "l", "a", "y", "l", "i", "s", "t">>)
       THEN Parsed(<<"p", "l", "a", "y", "l", "i", "s", "t", "-">> \o videoId, "youtube_playlist",
                   TxtYouTubePlaylist, TxtYouTubePlaylist,
                   << <<"youtube.com/embed/videoseries", videoId>>,
                      <<"youtube-nocookie.com/embed/videoseries", videoId>> >>)
       ELSE Parsed(videoId, "youtube", TxtYouTubeVideo, TxtYouTubeVideo,
                   << <<"youtube.com/embed", videoId>>,
                      <<"youtube-nocookie.com/embed", videoId>>,
                      <<"youtube.com/embed?origin=*", videoId>> >>)

\* parseVimeo: /vimeo\.com\/(\d+)/, then /player\.vimeo\.com\/video\/(\d+)/
parseVimeo(url) ==
    LET nonDigits == Chars \ Digits
        m1 == MatchAfterAny(url, << <<"v", "i", "m", "e", "o", ".", "c", "o", "m", "/">> >>, nonDigits)
        m2 == MatchAfterAny(url, << <<"p", "l", "a", "y", "e", "r", ".", "v", "i", "m", "e", "o",
        ".", "c", "o", "m", "/", "v", "i", "d", "e", "o", "/">> >>, nonDigits)
        videoId == IF m1 # <<>> THEN m1 ELSE m2
    IN IF videoId = <<>> THEN NoMatch
       ELSE Parsed(videoId, "vimeo", TxtVimeoVideo, TxtVimeoVideo,
                   << <<"player.vimeo.com/video", videoId>>,
                      <<"vimeo.com", videoId>> >>)

VideoExtensions ==
    << <<".", "m", "p", "4">>, <<".", "w", "e", "b", "m">>, <<".", "o", "g", "g">>, <<".", "m", "o", "v">>, <<".", "m", "k", "v">>, <<".", "f", "l", "v">>, <<".", "a", "v", "i">> >>

\* videoExtensions.some(ext => url.toLowerCase().includes(ext))
isVideo(url) ==
    \E k \in 1..Len(VideoExtensions) : includes(toLowerCase(url), VideoExtensions[k])

\* parseDirectVideo when btoa returns
parseDirectVideo(url) ==
    IF isVideo(url)
    THEN Parsed(btoa(url), "direct", TxtDirectVideo, TxtDirectVideoFile, << <<"url", url>> >>)
    ELSE NoMatch

\* parseUnknown: the result carries no originalUrl
parseUnknown(url) ==
    Parsed(btoa(url), "other", TxtCustomVideo, TxtUnknownSource, << <<"url", url>> >>)

\* parseURL for a non-empty url: the first matcher with a result, and
\* originalUrl added to it.  The matchers parseGoogleDrive, parseDailymotion,
\* parseFacebook, parseInstagram, parseTikTok, parseTwitter, parseTwitch,
\* parseStreamable, parseDropbox and parseGooglePhotos all test for their
\* host name, which no URL of AddUrls contains.
parseURL(url) ==
    IF parseYouTube(url) # NoMatch THEN [parseYouTube(url) EXCEPT !.originalUrl = url]
    ELSE IF parseVimeo(url) # NoMatch THEN [parseVimeo(url) EXCEPT !.originalUrl = url]
    ELSE IF parseDirectVideo(url) # NoMatch
    THEN [parseDirectVideo(url) EXCEPT !.originalUrl = url]
    ELSE parseUnknown(url)

\* how a call parseURL(url) ends: with null for the empty string, with the
\* exception that btoa throws in parseDirectVideo or parseUnknown, or with
\* a result
parseURLOutcome(url) ==
    IF url = <<>> THEN "null"
    ELSE IF parseYouTube(url) # NoMatch \/ parseVimeo(url) # NoMatch THEN "result"
    ELSE IF btoaThrows(url) THEN "threw"
    ELSE "result"

\* a call of parseURL: its argument, how it ended and what it returned
ParseCall(url) ==
    [url |-> url, outcome |-> parseURLOutcome(url),
     result |-> IF parseURLOutcome(url) = "result" THEN parseURL(url) ELSE NoMatch]

\* no call yet
NoParse == [url |-> <<>>, outcome |-> "none", result |-> NoMatch]

\* the URLs typed into the add form
UrlYouTube == <<"y", "o", "u", "t", "u", ".", "b", "e", "/", "a", "1">>
UrlVimeo == <<"v", "i", "m", "e", "o", ".", "c", "o", "m", "/", "7">>
UrlOther == <<"a", ".", "i", "o", "/", "v">>
AddUrls == {UrlYouTube, UrlVimeo, UrlOther}

\* further inputs of the add form: nothing, a media file, and a URL with a
\* character outside Latin-1
UrlDirect == <<"a", ".", "i", "o", "/", "v", ".", "m", "p", "4">>
UrlCyrillic == <<"a", ".", "i", "o", "/", CyrillicDe>>
FormUrls == AddUrls \cup {UrlDirect, UrlCyrillic}

\* The strings parseURL is called on: nothing or a host prefix, then up to
\* MaxBodyLength characters, then nothing or a video extension.
UrlPrefixes ==
    {<<>>, <<"y", "o", "u", "t", "u", ".", "b", "e", "/">>,
     <<"v", "i", "m", "e", "o", ".", "c", "o", "m", "/">>, <<"a", ".", "i", "o", "/">>}
UrlBodyChars == {"a", "7", "?", CyrillicDe}
UrlSuffixes == {<<>>, <<".", "m", "p", "4">>}

UrlBodies ==
    UNION {[1..n -> UrlBodyChars] : n \in 0..MaxBodyLength}

ParserUrls ==
    {prefix \o body \o suffix :
        prefix \in UrlPrefixes, body \in UrlBodies, suffix \in UrlSuffixes}

\* what parseURL returns for the URLs of the add form, as a table
ParsedUrl == [url \in FormUrls |-> ParseCall(url).result]

-----------------------------------------------------------------------------
(* DuplicatePreventionService *)

\* A 32-bit hash value is kept as its two 16-bit halves <<high, low>>.
\* hash = ((hash << 5) - hash) + char; hash = hash & hash
\* leaves 31 * hash + char reduced to 32 bits.
HashStep(hash, char) ==
    LET low == hash[2] * 31 + char
    IN << (hash[1] * 31 + (low \div 65536)) % 65536, low % 65536 >>

RECURSIVE HashFrom(_, _, _)
\* the loop of generateVideoHash from position i on; the test of next has
\* the assignment to hash evaluated at every iteration, as the loop does
HashFrom(content, i, hash) ==
    IF i > Len(content) THEN hash
    ELSE LET next == HashStep(hash, CharCode(content[i]))
         IN IF next[1] < 65536 THEN HashFrom(content, i + 1, next) ELSE next

\* generateVideoHash: toString(36) of a 32-bit integer is one-to-one, so
\* the integer stands for the key
generateVideoHash(videoData) ==
    HashFrom(toLowerCase(videoData.videoId \o <<"-">> \o TypeText(videoData.type)
                         \o <<"-">> \o videoData.title), 1, <<0, 0>>)

RECURSIVE EditRow(_, _, _, _, _)
\* the inner loop of editDistance for row i: prev is costs as the previous
\* row left it, row the values of this row so far (row[j] is lastValue when
\* column j is computed, prev[j] is costs[j - 1], prev[j + 1] is costs[j])
EditRow(s1, s2, i, prev, row) ==
    IF Len(row) = Len(s2) + 1 THEN row
    ELSE LET j == Len(row)
             newValue == IF s1[i] # s2[j]
                         THEN Min(Min(prev[j], row[j]), prev[j + 1]) + 1
                         ELSE prev[j]
         IN EditRow(s1, s2, i, prev, Append(row, newValue))

RECURSIVE EditRows(_, _, _, _)
\* the outer loop of editDistance from row i on; the test of next has the
\* row evaluated before the following one is begun, as the loop does
EditRows(s1, s2, i, costs) ==
    IF i > Len(s1) THEN costs
    ELSE LET next == EditRow(s1, s2, i, costs, <<i>>)
         IN IF Len(next) = Len(costs) THEN EditRows(s1, s2, i + 1, next) ELSE next

\* editDistance(s1, s2): both lowercased, one row of costs
editDistance(a, b) ==
    LET s1 == toLowerCase(a)
        s2 == toLowerCase(b)
        row0 == [j \in 1..(Len(s2) + 1) |-> j - 1]
    IN EditRows(s1, s2, 1, row0)[Len(s2) + 1]

\* the titles and URLs the model's videos carry, and editDistance on them
\* as a table
KnownTexts ==
    {TxtYouTubeVideo, TxtVimeoVideo, TxtCustomVideo, TxtOEmbedTitle, TxtAlpha,
     TxtBeta} \cup AddUrls

EditDistances == [pair \in KnownTexts \X KnownTexts |-> editDistance(pair[1], pair[2])]

Distance(a, b) ==
    IF <<a, b>> \in DOMAIN EditDistances THEN EditDistances[<<a, b>>]
    ELSE editDistance(a, b)

\* calculateSimilarity(str1, str2) > threshold, with the threshold given in
\* hundredths: (longer.length - distance) / longer.length > threshold
SimilarityAboveOfFirst(str1, str2, hundredths) ==
    IF str1 = <<>> \/ str2 = <<>> THEN FALSE
    ELSE (Len(str1) - Distance(str1, str2)) * 100 > hundredths * Len(str1)

SimilarityAbove(str1, str2, hundredths) ==
    IF str1 = <<>> \/ str2 = <<>> THEN FALSE
    ELSE LET longer == IF Len(str1) > Len(str2) THEN str1 ELSE str2
             shorter == IF Len(str1) > Len(str2) THEN str2 ELSE str1
         IN (Len(longer) - Distance(longer, shorter)) * 100 > hundredths * Len(longer)

\* this.similarityThreshold = 0.85, in hundredths
SimilarityThreshold == 85

\* checkSimilarity: catalog entries carry no originalUrl, so the URL
\* similarity is 0 whenever video2 is an entry of the catalog
checkSimilarity(video1, video2, hundredths) ==
    \/ SimilarityAbove(video1.title, video2.title, hundredths)
    \/ /\ video1.originalUrl # <<>> /\ video2.originalUrl # <<>>
       /\ SimilarityAbove(video1.originalUrl, video2.originalUrl, hundredths)

\* isDuplicate's answer
isDuplicate(videoData, existingVideos, hashes) ==
    \/ generateVideoHash(videoData) \in hashes
    \/ \E i \in 1..Len(existingVideos) :
          checkSimilarity(videoData, existingVideos[i], SimilarityThreshold)

\* a call of isDuplicate: its candidate and its answer
Checked(videoData, existingVideos, hashes) ==
    [candidate |-> videoData, duplicate |-> isDuplicate(videoData, existingVideos, hashes)]

\* no call yet
NoCheck == [candidate |-> NoVideo, duplicate |-> FALSE]

\* isDuplicate's effect on videoHashes when its answer is false: the hash
\* is stored (when it is true nothing is stored)
HashesAfterAdmission(videoData, hashes) == hashes \cup {generateVideoHash(videoData)}

-----------------------------------------------------------------------------
(* EnhancedVideoManager: the filtered view *)

RECURSIVE FuzzyFrom(_, _, _, _)
\* fuzzyMatch's loop from position i of text with searchIndex characters of
\* search matched so far, taken one match at a time: the characters before
\* the next occurrence of search[searchIndex] leave searchIndex alone. An
\* empty search returns true at the first character read.
FuzzyFrom(text, search, i, searchIndex) ==
    IF i > Len(text) THEN FALSE
    ELSE IF search = <<>> THEN TRUE
    ELSE LET hits == {k \in i..Len(text) : text[k] = search[searchIndex + 1]}
         IN IF hits = {} THEN FALSE
            ELSE LET first == CHOOSE k \in hits : \A m \in hits : k <= m
                 IN IF searchIndex + 1 = Len(search) THEN TRUE
                    ELSE FuzzyFrom(text, search, first + 1, searchIndex + 1)

fuzzyMatchAnyChar(text, search) ==
    \E i \in 1..Len(text) : \E k \in 1..Len(search) : text[i] = search[k]

fuzzyMatch(text, search) == FuzzyFrom(text, search, 1, 0)

\* CONFIG.SEARCH.SEARCH_FIELDS as String(video[field] || ''), in order
SearchFields(video) ==
    << video.title, video.description, TypeText(video.type), video.tags,
       video.category, video.author >>

\* searchVideos with CONFIG.SEARCH.FUZZY_SEARCH = true
searchVideos(videos, searchTerm) ==
    LET searchLower == toLowerCase(searchTerm)
        Hit(video) == \E f \in 1..Len(SearchFields(video)) :
                         fuzzyMatch(toLowerCase(SearchFields(video)[f]), searchLower)
    IN SelectSeq(videos, Hit)

RECURSIVE CompareFrom(_, _, _)
\* the sign of the first difference of two texts from position i on, a
\* missing character ordering first
CompareFrom(a, b, i) ==
    IF i > Len(a) /\ i > Len(b) THEN 0
    ELSE IF i > Len(a) THEN -1
    ELSE IF i > Len(b) THEN 1
    ELSE IF CharCode(a[i]) < CharCode(b[i]) THEN -1
    ELSE IF CharCode(a[i]) > CharCode(b[i]) THEN 1
    ELSE CompareFrom(a, b, i + 1)

\* a.localeCompare(b) on texts of letters, digits and spaces: alphabetical
\* without regard to case, then lower case before upper case
localeCompare(a, b) ==
    LET primary == CompareFrom(toLowerCase(a), toLowerCase(b), 1)
    IN IF primary # 0 THEN primary ELSE 0 - CompareFrom(a, b, 1)

RECURSIVE SplitFrom(_, _, _, _)
\* text.split(sep) from position i on, part being the piece under way
SplitFrom(text, sep, i, part) ==
    IF i > Len(text) THEN <<part>>
    ELSE IF text[i] = sep THEN <<part>> \o SplitFrom(text, sep, i + 1, <<>>)
    ELSE SplitFrom(text, sep, i + 1, Append(part, text[i]))

split(text, sep) == SplitFrom(text, sep, 1, <<>>)

DigitSeq == <<"0", "1", "2", "3", "4", "5", "6", "7", "8", "9">>
IsDigit(c) == c \in Digits
DigitValue(c) == (CHOOSE d \in 1..10 : DigitSeq[d] = c) - 1

NaN == [nan |-> TRUE, value |-> 0]
Number(n) == [nan |-> FALSE, value |-> n]

RECURSIVE ParseIntFrom(_, _, _)
ParseIntFrom(text, i, acc) ==
    IF i > Len(text) \/ ~IsDigit(text[i]) THEN acc
    ELSE ParseIntFrom(text, i + 1, 10 * acc + DigitValue(text[i]))

\* parseInt(text) of a text without sign or leading blanks: the number its
\* leading digits spell, NaN when it starts with none
parseInt(text) ==
    IF text = <<>> \/ ~IsDigit(text[1]) THEN NaN ELSE Number(ParseIntFrom(text, 1, 0))

\* a * x + b * y + z in JS numbers
Combine(parts, weights) ==
    IF \E k \in 1..Len(parts) : parseInt(parts[k]).nan THEN NaN
    ELSE Number(IF Len(parts) = 3
                THEN parseInt(parts[1]).value * weights[1]
                       + parseInt(parts[2]).value * weights[2] + parseInt(parts[3]).value
                ELSE parseInt(parts[1]).value * weights[2] + parseInt(parts[2]).value)

\* duration.split(':') throws a TypeError on a Number, which has no split
parseDurationThrows(duration) == duration.number /\ duration.value # 0

\* parseDuration(duration), the seconds of "h:mm:ss" or "m:ss"
parseDuration(duration) ==
    IF duration = TextDuration(<<>>) \/ duration = NumberDuration(0)
         \/ duration = NoDuration
    THEN Number(0)
    ELSE LET parts == split(duration.text, ":")
         IN IF Len(parts) \in {2, 3} THEN Combine(parts, <<3600, 60>>) ELSE Number(0)

\* x - y of two JS numbers as a comparator's result: NaN counts as +0
Minus(x, y) == IF x.nan \/ y.nan THEN 0 ELSE x.value - y.value

\* bScore - aScore for VideoAnalytics' score, whose recency bonus
\* 100 - (days since lastPlayed) differs between two videos played at
\* different times by less than any difference of the other terms as long
\* as the plays are less than a day old; the clock is read once per sort
AnalyticsMinus(b, a) ==
    LET whole == analyticsPopularityScore(stats, b.id) - analyticsPopularityScore(stats, a.id)
    IN IF whole # 0 THEN whole
       ELSE getVideoStats(stats, b.id).lastPlayed - getVideoStats(stats, a.id).lastPlayed

\* bScore - aScore for the manager's score
PopularityMinus(b, a) ==
    LET whole == calculatePopularityScore(b, recentlyPlayed, stats)
                   - calculatePopularityScore(a, recentlyPlayed, stats)
    IN IF whole # 0 THEN whole
       ELSE getVideoStats(stats, b.id).lastPlayed - getVideoStats(stats, a.id).lastPlayed

\* the recently_played comparator
RecentlyPlayedCompare(a, b) ==
    LET aPlayed == FindIndexById(recentlyPlayed, a.id)
        bPlayed == FindIndexById(recentlyPlayed, b.id)
    IN IF aPlayed = 0 /\ bPlayed = 0 THEN 0
       ELSE IF aPlayed = 0 THEN 1
       ELSE IF bPlayed = 0 THEN -1
       ELSE recentlyPlayed[bPlayed].playedAt - recentlyPlayed[aPlayed].playedAt

\* the comparator sortVideos (for most_popular, getPopularVideos) hands to
\* Array.prototype.sort
SortCompare(a, b, sortOption) ==
    CASE sortOption = "title_asc" -> localeCompare(a.title, b.title)
      [] sortOption = "title_desc" -> localeCompare(b.title, a.title)
      [] sortOption = "date_desc" -> b.createdAt - a.createdAt
      [] sortOption = "date_asc" -> a.createdAt - b.createdAt
      [] sortOption = "duration_asc" ->
            Minus(parseDuration(a.duration), parseDuration(b.duration))
      [] sortOption = "duration_desc" ->
            Minus(parseDuration(b.duration), parseDuration(a.duration))
      [] sortOption = "popularity" -> PopularityMinus(b, a)
      [] sortOption = "recently_played" -> RecentlyPlayedCompare(a, b)
      [] sortOption = "most_popular" -> AnalyticsMinus(b, a)
      [] OTHER -> 0

\* Array.prototype.sort is stable: an element moves behind exactly the
\* elements that compare lower and the equal ones that came before it
StableSort(videos, sortOption) ==
    LET Rank(i) == Cardinality({j \in 1..Len(videos) :
                        \/ SortCompare(videos[j], videos[i], sortOption) < 0
                        \/ /\ SortCompare(videos[j], videos[i], sortOption) = 0
                           /\ j < i}) + 1
    IN [r \in 1..Len(videos) |-> videos[CHOOSE i \in 1..Len(videos) : Rank(i) = r]]

\* the values of the sort select that are cases of sortVideos' switch
SortCases ==
    {"title_asc", "title_desc", "date_desc", "date_asc", "duration_asc",
     "duration_desc", "popularity", "recently_played", "most_popular"}

\* sortVideos throws: sort calls the comparator on every element of a list
\* of two or more, and parseDuration throws on a Number
sortVideosThrows(videos, sortOption) ==
    /\ sortOption \in {"duration_asc", "duration_desc"}
    /\ Len(videos) >= 2
    /\ \E i \in 1..Len(videos) : parseDurationThrows(videos[i].duration)

\* sortVideos when it returns: a copy, sorted when the option is one of the
\* switch's cases
sortVideos(videos, sortOption) ==
    IF sortOption \in SortCases THEN StableSort(videos, sortOption)
    ELSE videos

\* the list handed to sortVideos if the search ran for a term of any length
SearchedAnyLength(videos, platform, searchTerm) ==
    LET OfPlatform(video) == video.type = platform
        filtered == IF platform # "all" THEN SelectSeq(videos, OfPlatform) ELSE videos
    IN IF Len(searchTerm) >= 1
       THEN searchVideos(filtered, searchTerm) ELSE filtered

\* applyFiltersAndSearch: the list handed to sortVideos
Searched(videos, platform, searchTerm) ==
    LET OfPlatform(video) == video.type = platform
        filtered == IF platform # "all" THEN SelectSeq(videos, OfPlatform) ELSE videos
    IN IF Len(searchTerm) >= MinSearchLength
       THEN searchVideos(filtered, searchTerm) ELSE filtered

\* applyFiltersAndSearch: the value it assigns to filteredVideos
applyFiltersAndSearch(videos, platform, searchTerm, sortOption) ==
    sortVideos(Searched(videos, platform, searchTerm), sortOption)

SortedInPlace(videos, platform, searchTerm, sortOption) ==
    IF sortVideosThrows(Searched(videos, platform, searchTerm), sortOption)
    THEN videos ELSE sortVideos(videos, sortOption)

\* this.allVideos after a call of applyFiltersAndSearch: the filter, the
\* search and the sort work on copies ([...this.allVideos], filter(),
\* [...videos]) of the array it is given
CatalogAfterQuery(videos, platform, searchTerm, sortOption) == videos

\* this.filteredVideos after a call of applyFiltersAndSearch, which leaves
\* it as it was when sortVideos throws
Queried(videos, platform, searchTerm, sortOption) ==
    IF sortVideosThrows(Searched(videos, platform, searchTerm), sortOption)
    THEN filteredVideos
    ELSE applyFiltersAndSearch(videos, platform, searchTerm, sortOption)

-----------------------------------------------------------------------------
(* AirtableService and the remote record store *)

\* this.retryDelay, in milliseconds
RetryDelay == 1000

\* the ids the store hands out, in order
RecordIds == <<"rec1", "rec2", "rec3", "rec4", "rec5", "rec6", "rec7", "rec8">>

\* a record of the remote table: its id and its fields; a field the record
\* does not have is "none" or empty
StoreRecord(id, videoId, type, status, title, description, author, url, embedUrls) ==
    [id |-> id, videoId |-> videoId, type |-> type, status |-> status,
     title |-> title, description |-> description, author |-> author,
     url |-> url, embedUrls |-> embedUrls,
     duration |-> NoDuration, createdAt |-> -1, viewCount |-> 0]

\* duration || '--:--': the empty text and the Number 0 are falsy
DurationOr(duration) ==
    IF duration = TextDuration(<<>>) \/ duration = NumberDuration(0)
    THEN NoDuration ELSE duration

\* fields.embedUrls || [fields.url]
EmbedUrlsOrUrl(record) ==
    IF record.embedUrls # <<>> THEN record.embedUrls ELSE <<record.url>>

\* getAllVideos: the object made of one fetched record
RecordToVideo(record) ==
    [Video(record.id,
           IF record.videoId # <<>> THEN record.videoId ELSE <<record.id>>,
           IF record.type # "none" THEN record.type ELSE "other",
           IF record.status # "none" THEN record.status ELSE "active",
           record.title, record.description, record.author,
           EmbedUrlsOrUrl(record), <<>>)
       EXCEPT !.duration = DurationOr(record.duration),
              !.createdAt = IF record.createdAt # -1 THEN record.createdAt ELSE now,
              !.viewCount = record.viewCount]

\* getAllVideos: records.map(...).filter(video => video.status !== 'inactive')
FetchedVideos(records) ==
    LET NotInactive(video) == video.status # "inactive"
    IN SelectSeq([i \in 1..Len(records) |-> RecordToVideo(records[i])], NotInactive)

\* addVideo: the object made of the created record the store returns
CreatedVideo(record) ==
    [Video(record.id, record.videoId, record.type, record.status, record.title,
           record.description, record.author, EmbedUrlsOrUrl(record), <<>>)
       EXCEPT !.duration = record.duration,
              !.createdAt = record.createdAt,
              !.viewCount = record.viewCount]

\* addCustomVideo and addVideo: the record sent for the admitted video, as
\* the store keeps it under the id and with the status it gives it
RecordSent(id, status, enhancedMetadata) ==
    [StoreRecord(id, enhancedMetadata.videoId, enhancedMetadata.type, status,
                 enhancedMetadata.title, enhancedMetadata.description,
                 enhancedMetadata.author, enhancedMetadata.embedUrls[1], <<>>)
       EXCEPT !.duration = DurationOr(enhancedMetadata.duration),
              !.createdAt = now,
              !.viewCount = enhancedMetadata.viewCount]

\* what a fetch can come back with: a 2xx with or without a records array,
\* a body that is not JSON, a status of each class, a network failure, and
\* the 15 s AbortSignal.timeout
ResponseKinds ==
    {"ok", "ok_norecords", "badjson", "429", "5xx", "4xx", "network", "timeout"}

\* error.name of what handleRequest's catch receives
ErrorName(kind) ==
    CASE kind = "network" -> "TypeError"
      [] kind = "timeout" -> "TimeoutError"
      [] kind = "badjson" -> "SyntaxError"
      [] OTHER -> "Error"

RetriesKept(retries) == retries

\* the retries argument of the recursive call
RetriesLeft(retries) == retries - 1

\* handleRequest after its fetch has settled with kind: resolve with the
\* parsed body, delay and call itself again, or reject
handleRequest(kind, retries) ==
    IF kind \in {"ok", "ok_norecords"} THEN [act |-> "resolve", delay |-> 0]
    ELSE IF kind = "429" /\ retries > 0 THEN [act |-> "retry", delay |-> RetryDelay * 2]
    ELSE IF kind = "5xx" /\ retries > 0 THEN [act |-> "retry", delay |-> RetryDelay]
    ELSE IF retries > 0 /\ ErrorName(kind) # "AbortError"
    THEN [act |-> "retry", delay |-> RetryDelay]
    ELSE [act |-> "reject", delay |-> 0]

NoResponse == [kind |-> "none", records |-> <<>>]

IdleRequest ==
    [state |-> "idle", retries |-> RetryCount, fetches |-> 0, answers |-> 0,
     oks |-> 0, delay |-> 0, resp |-> NoResponse]

\* handleRequest(url, options) called: the first fetch is issued
FirstFetch == [IdleRequest EXCEPT !.state = "sent", !.fetches = 1]

\* the request once its pending response has been handled
Handled(r) ==
    LET d == handleRequest(r.resp.kind, r.retries)
        seen == [r EXCEPT !.answers = @ + 1,
                          !.oks = @ + (IF r.resp.kind \in {"ok", "ok_norecords"} THEN 1 ELSE 0),
                          !.resp = NoResponse]
    IN CASE d.act = "retry" ->
              [seen EXCEPT !.state = "delaying", !.delay = d.delay,
                           !.retries = RetriesLeft(r.retries)]
         [] d.act = "resolve" -> [seen EXCEPT !.state = "resolved", !.delay = 0]
         [] OTHER -> [seen EXCEPT !.state = "rejected", !.delay = 0]

EmptyCache == [present |-> FALSE, videos |-> <<>>]

-----------------------------------------------------------------------------
(* The catalog's operations: loadVideos, addCustomVideo, the settings *)

\* what the catalog's operations never touch
playbackVars == <<currentVideoId, recentlyPlayed, now, playerVars, historyVars, analyticsVars>>
settingVars == <<currentFilter, currentSearchTerm, currentSortOption>>
addVars == <<addPc, addParsed, videoHashes, lastCheck, lastParse>>
loadVars == <<isLoading, loadPc>>

\* applyFiltersAndSearch() on the given catalog throws
ViewThrows(videos) ==
    sortVideosThrows(Searched(videos, currentFilter, currentSearchTerm),
                     currentSortOption)

\* How the promise of a loadVideos or addCustomVideo call settles, threw
\* saying whether its try block threw: "rejected" would be a rejected
\* promise.
loadVideosRethrows(threw) == IF threw THEN "rejected" ELSE "catalog"

\* loadVideos: return this.allVideos at the end of the try block, return []
\* in the catch block
loadVideosReturns(threw) == IF threw THEN "empty" ELSE "catalog"

\* addCustomVideo: return createdVideo and a success notification at the
\* end of the try block, return null and an error notification in the catch
\* block
addCustomVideoReturns(threw) ==
    IF threw THEN [value |-> "null", notice |-> "error"]
    ELSE [value |-> "created", notice |-> "success"]

\* error.message of what handleRequest rejects with once no retry is left:
\* the status line of the answer, or the message of the error that fetch or
\* response.json() threw
handleRequestError(kind) ==
    CASE kind = "429" -> "HTTP 429: Too Many Requests"
      [] kind = "5xx" -> "HTTP 503: Service Unavailable"
      [] kind = "4xx" -> "HTTP 403: Forbidden"
      [] kind = "network" -> "Failed to fetch"
      [] kind = "timeout" -> "The operation timed out."
      [] kind = "badjson" -> "Unexpected end of JSON input"
      [] OTHER -> "none"

\* error.message of what getAllVideos throws: its catch block replaces
\* every error by one of its own
getAllVideosError(kind) == "Failed to load videos from cloud storage"

\* error.message of what addVideo throws: its own error for a body without
\* records, and in its catch block throw error
addVideoError(kind) ==
    IF kind = "ok_norecords" THEN "No record returned from Airtable"
    ELSE handleRequestError(kind)

\* the message of the TypeError sortVideos throws on a numeric duration
SortErrorMessage == "duration.split is not a function"

\* showNotification('Failed to load videos: ' + error.message, 'error')
loadVideosNotice(kind, viewThrew) ==
    [prefix |-> "Failed to load videos: ",
     message |-> IF kind # "ok" THEN getAllVideosError(kind)
                 ELSE IF viewThrew THEN SortErrorMessage ELSE "none"]

\* showNotification('Failed to add video: ' + error.message, 'error')
addCustomVideoNotice(kind, viewThrew) ==
    [prefix |-> "Failed to add video: ",
     message |-> IF kind # "ok" THEN addVideoError(kind)
                 ELSE IF viewThrew THEN SortErrorMessage ELSE "none"]

\* what getAllVideos or addVideo makes of the settled request r0: it throws
\* ("failed") when handleRequest rejected or the body has no records
RequestOutcome(r0) ==
    IF Handled(r0).state = "resolved" /\ r0.resp.kind = "ok" THEN "ok" ELSE "failed"

\* this.filteredVideos after applyFiltersAndSearch() on the given catalog
View(videos) ==
    Queried(videos, currentFilter, currentSearchTerm, currentSortOption)

LoadVideosResultPartial(outcome, freshVideos, videos) ==
    IF outcome = "ok" THEN freshVideos ELSE <<>>

\* this.allVideos when loadVideos returns: the fetched catalog, or what it
\* was when getAllVideos threw
LoadVideosResult(outcome, freshVideos, videos) ==
    IF outcome = "ok" THEN freshVideos ELSE videos

loadVideosNeverReturnsAtOnce(loading) == FALSE

\* if (this.isLoading) return this.allVideos
loadVideosReturnsAtOnce(loading) == loading

\* loadVideos() is called.  A call during a load returns at once; a cached
\* catalog is returned by getAllVideos without a fetch, and the call runs
\* to its end; otherwise the call is suspended on handleRequest's fetch.
LoadVideosCall ==
    /\ \/ /\ loadVideosReturnsAtOnce(isLoading)
          /\ UNCHANGED <<allVideos, filteredVideos, loadVars, req>>
       \/ /\ ~loadVideosReturnsAtOnce(isLoading)
          /\ storeCache.present
          /\ allVideos' = LoadVideosResult("ok", storeCache.videos, allVideos)
          /\ filteredVideos' = View(allVideos')
          /\ UNCHANGED <<isLoading, loadPc, req>>
       \/ /\ ~loadVideosReturnsAtOnce(isLoading)
          /\ ~storeCache.present
          /\ isLoading' = TRUE
          /\ loadPc' = "waiting"
          /\ req' = [req EXCEPT !.load = FirstFetch]
          /\ UNCHANGED <<allVideos, filteredVideos>>
    /\ UNCHANGED <<storeRecords, nextRecordId, storeCache, addVars, settingVars, playbackVars>>

\* the store answers the GET: a 2xx carries the table as it is now
StoreAnswerLoad(kind) ==
    /\ req.load.state = "sent"
    /\ req' = [req EXCEPT !.load.state = "answered",
                          !.load.resp = [kind |-> kind,
                                         records |-> IF kind = "ok" THEN storeRecords
                                                     ELSE <<>>]]
    /\ UNCHANGED <<allVideos, filteredVideos, storeRecords, nextRecordId, storeCache,
                   loadVars, addVars, settingVars, playbackVars>>

\* the store answers the POST: a 2xx with a record has created it, under
\* the next id and with the status the store gives it
StoreAnswerAdd(kind, status) ==
    /\ req.add.state = "sent"
    /\ IF kind = "ok"
       THEN /\ nextRecordId <= MaxStoreRecords
            /\ LET record == RecordSent(RecordIds[nextRecordId], status, addParsed)
               IN /\ storeRecords' = Append(storeRecords, record)
                  /\ req' = [req EXCEPT !.add.state = "answered",
                                        !.add.resp = [kind |-> kind, records |-> <<record>>]]
            /\ nextRecordId' = nextRecordId + 1
       ELSE /\ status = "active"
            /\ req' = [req EXCEPT !.add.state = "answered",
                                  !.add.resp = [kind |-> kind, records |-> <<>>]]
            /\ UNCHANGED <<storeRecords, nextRecordId>>
    /\ UNCHANGED <<allVideos, filteredVideos, storeCache, loadVars, addVars,
                   settingVars, playbackVars>>

\* the GET's response reaches the page: handleRequest handles it and, when
\* it settles, getAllVideos and loadVideos run to their end
DeliverLoad ==
    /\ req.load.state = "answered"
    /\ LET r == Handled(req.load)
           outcome == RequestOutcome(req.load)
           freshVideos == FetchedVideos(req.load.resp.records)
       IN /\ req' = [req EXCEPT !.load = r]
          /\ IF r.state = "delaying"
             THEN UNCHANGED <<allVideos, filteredVideos, storeCache, loadVars>>
             ELSE /\ allVideos' = LoadVideosResult(outcome, freshVideos, allVideos)
                  /\ filteredVideos' = IF outcome = "ok" THEN View(allVideos')
                                       ELSE filteredVideos
                  /\ storeCache' = IF outcome = "ok"
                                   THEN [present |-> TRUE, videos |-> freshVideos]
                                   ELSE storeCache
                  /\ isLoading' = FALSE
                  /\ loadPc' = "idle"
    /\ UNCHANGED <<storeRecords, nextRecordId, addVars, settingVars, playbackVars>>

\* the POST's response reaches the page: handleRequest handles it and, when
\* it settles, addVideo and addCustomVideo run to their end
DeliverAddEnds ==
    /\ req.add.state = "answered"
    /\ LET r == Handled(req.add)
           outcome == RequestOutcome(req.add)
       IN /\ req' = [req EXCEPT !.add = r]
          /\ IF r.state = "delaying"
             THEN UNCHANGED <<allVideos, filteredVideos, storeCache, addPc, addParsed>>
             ELSE /\ allVideos' = IF outcome = "ok"
                                  THEN Append(allVideos, CreatedVideo(req.add.resp.records[1]))
                                  ELSE allVideos
                  /\ filteredVideos' = IF outcome = "ok" THEN View(allVideos')
                                       ELSE filteredVideos
                  /\ storeCache' = IF outcome = "ok" THEN EmptyCache ELSE storeCache
                  /\ addPc' = "idle"
                  /\ addParsed' = NoVideo
    /\ UNCHANGED <<storeRecords, nextRecordId, videoHashes, lastCheck, lastParse,
                   loadVars, settingVars>>

DeliverAdd == DeliverAddEnds /\ UNCHANGED playbackVars

\* this.delay(...) is over: handleRequest calls itself and fetches again
DelayElapsed(op) ==
    /\ req[op].state = "delaying"
    /\ req' = [req EXCEPT ![op].state = "sent", ![op].fetches = @ + 1]
    /\ UNCHANGED <<allVideos, filteredVideos, storeRecords, nextRecordId, storeCache,
                   loadVars, addVars, settingVars, playbackVars>>

\* setTimeout(() => this.cache.delete(cacheKey), CACHE_DURATION)
ExpireStoreCache ==
    /\ storeCache.present
    /\ storeCache' = EmptyCache
    /\ UNCHANGED <<allVideos, filteredVideos, storeRecords, nextRecordId, req,
                   loadVars, addVars, settingVars, playbackVars>>

\* addCustomVideo after its duplicate check, up to its next suspension: the
\* probe, the oEmbed fetch of a youtube or vimeo video, or addVideo's POST
AddAfterProbe(parsed) ==
    IF parsed.type \in {"youtube", "vimeo"}
    THEN /\ addPc' = "metadata"
         /\ UNCHANGED req
    ELSE /\ addPc' = "request"
         /\ req' = [req EXCEPT !.add = FirstFetch]

RejectDuplicateAfterInsert ==
    /\ req' = [req EXCEPT !.add = FirstFetch]
    /\ UNCHANGED <<addPc, addParsed, videoHashes>>

\* addCustomVideo when isDuplicate answers true: a warning is shown and the
\* call returns null
RejectDuplicate == UNCHANGED <<addPc, addParsed, videoHashes, req>>

\* What a call addCustomVideo(url) returns when it returns before its first
\* suspension; "none" in value when it is suspended instead.
addCustomVideoReturnsAtOnce(url, videos, hashes) ==
    IF url = <<>>
    THEN [value |-> "null", notice |-> "warning"]
    ELSE IF ParseCall(url).outcome # "result"
    THEN addCustomVideoReturns(TRUE)
    ELSE IF Checked(ParsedUrl[url], videos, hashes).duplicate
    THEN [value |-> "null", notice |-> "warning"]
    ELSE [value |-> "none", notice |-> "none"]

\* addCustomVideo(url) is called from the add form, whose button is
\* disabled until the call returns.  The availability probe of a parsed
\* video that is not a direct file throws on video.url and answers false
\* at once, which only shows a warning.  A youtube or vimeo video then
\* waits for its oEmbed fetch; any other goes on to addVideo's POST.
\* (The metadata cache never answers here: its key is made of the same
\* videoId and type as the hash that isDuplicate has just found new.)
AddCustomVideoCall(url) ==
    /\ addPc = "idle"
    /\ IF url = <<>>
       THEN \* if (!url): warning, return null
            UNCHANGED <<lastParse, lastCheck, addPc, addParsed, videoHashes, req>>
       ELSE /\ lastParse' = ParseCall(url)
            /\ IF lastParse'.outcome # "result"
               THEN \* parseURL threw: the catch block
                    UNCHANGED <<lastCheck, addPc, addParsed, videoHashes, req>>
               ELSE LET parsed == lastParse'.result
                    IN /\ lastCheck' = Checked(parsed, allVideos, videoHashes)
                       /\ IF lastCheck'.duplicate
                          THEN RejectDuplicate
                          ELSE /\ videoHashes' = HashesAfterAdmission(parsed, videoHashes)
                               /\ addParsed' = parsed
                               /\ IF availCache["undefined"] = "none"
                                     /\ parsed.type = "direct"
                                  THEN /\ addPc' = "probe"
                                       /\ UNCHANGED req
                                  ELSE AddAfterProbe(parsed)
    /\ UNCHANGED <<allVideos, filteredVideos, storeRecords, nextRecordId, storeCache,
                   loadVars, settingVars, playbackVars>>

\* the probe of a parsed media file (checkDirectUrl) answers; the answer
\* is cached under the key of a video without id and only decides whether
\* a warning is shown in passing
AddProbeDone(ok) ==
    /\ addPc = "probe"
    /\ availCache' = [availCache EXCEPT !["undefined"] = IF ok THEN "yes" ELSE "no"]
    /\ AddAfterProbe(addParsed)
    /\ UNCHANGED <<allVideos, filteredVideos, storeRecords, nextRecordId, storeCache,
                   addParsed, videoHashes, lastCheck, lastParse, loadVars,
                   settingVars, currentVideoId, recentlyPlayed, now, historyVars,
                   analyticsVars>>
    /\ UNCHANGED <<currentEmbedIndex, currentVideoData, fallbackVisible, playerSrc,
                   playerShown, handlerOwner, timers, probing, probe, viewerPending,
                   mediaEl, notification, nSessions, sessVideo>>

\* Math.round(data.duration / 60) of the oEmbed answer for the Vimeo URL
OEmbedMinutes == 5

\* enhanceYouTubeMetadata and enhanceVimeoMetadata on an ok answer
Enhanced(parsed) ==
    [parsed EXCEPT !.title = TxtOEmbedTitle,
                   !.author = TxtOEmbedAuthor,
                   !.duration = IF parsed.type = "vimeo"
                                THEN NumberDuration(OEmbedMinutes) ELSE @]

\* the oEmbed fetch settles: with a title and an author (and, from Vimeo,
\* a duration in minutes), or without (not ok, or failed); addVideo then
\* issues the POST
AddMetadataDone(enhanced) ==
    /\ addPc = "metadata"
    /\ addParsed' = IF enhanced THEN Enhanced(addParsed) ELSE addParsed
    /\ addPc' = "request"
    /\ req' = [req EXCEPT !.add = FirstFetch]
    /\ UNCHANGED <<allVideos, filteredVideos, storeRecords, nextRecordId, storeCache,
                   videoHashes, lastCheck, lastParse, loadVars, settingVars,
                   playbackVars>>

\* the filter select changes (a change event carries a new value)
SetFilter(platform) ==
    /\ platform # currentFilter
    /\ currentFilter' = platform
    /\ filteredVideos' = Queried(allVideos, platform, currentSearchTerm,
                                 currentSortOption)
    /\ allVideos' = CatalogAfterQuery(allVideos, platform, currentSearchTerm,
                                      currentSortOption)
    /\ UNCHANGED <<currentSearchTerm, currentSortOption, storeVars,
                   isLoading, playbackVars>>

\* the search input changes, debounced
SetSearch(query) ==
    /\ query # currentSearchTerm
    /\ currentSearchTerm' = query
    /\ filteredVideos' = Queried(allVideos, currentFilter, query,
                                 currentSortOption)
    /\ allVideos' = CatalogAfterQuery(allVideos, currentFilter, query,
                                      currentSortOption)
    /\ UNCHANGED <<currentFilter, currentSortOption, storeVars,
                   isLoading, playbackVars>>

\* the sort select changes
SetSort(sortOption) ==
    /\ sortOption # currentSortOption
    /\ currentSortOption' = sortOption
    /\ filteredVideos' = Queried(allVideos, currentFilter, currentSearchTerm,
                                 sortOption)
    /\ allVideos' = CatalogAfterQuery(allVideos, currentFilter, currentSearchTerm,
                                      sortOption)
    /\ UNCHANGED <<currentFilter, currentSearchTerm, storeVars,
                   isLoading, playbackVars>>

-----------------------------------------------------------------------------
(* Initial states *)

CatalogIds == {PlayerCatalog[i].id : i \in 1..Len(PlayerCatalog)}

-----------------------------------------------------------------------------
(* VideoAvailabilityChecker *)

\* The fields of a video that checkVideoAvailability reads.  A video built
\* from a store record has url (record.fields.url || ''); the object that
\* parseURL returns has neither id nor url.
TxtHttpUrl == <<"h", "t", "t", "p", "s", ":", "/", "/", "e", ".", "i", "o", "/", "1">>
Probed(id, type, hasUrl, url) == [id |-> id, type |-> type, hasUrl |-> hasUrl, url |-> url]

ProbeVideos ==
    { Probed("recA", "youtube", TRUE, TxtHttpUrl),
      Probed("recB", "vimeo", TRUE, <<>>),
      Probed("recD", "direct", TRUE, TxtHttpUrl),
      Probed("recO", "other", TRUE, <<>>),
      Probed("undefined", "youtube", FALSE, <<>>) }

ProbeIds == CatalogIds \cup {v.id : v \in ProbeVideos}

\* the keys the cache can hold: the ids above and those the store hands out
CacheIds == ProbeIds \cup {RecordIds[i] : i \in 1..MaxStoreRecords}

\* a call: the fetch it awaits ("head", "get", "thumbnail"), "done" once
\* its promise is settled, and how it settled ("true", "false"; "rejected"
\* would be a rejected promise)
NoProbe == [video |-> Probed("null", "none", FALSE, <<>>), phase |-> "idle", result |-> "none"]

startsWith(text, prefix) == StartsAt(text, 1, prefix)

\* the awaited check answers isAvailable: this.cache.set(cacheKey,
\* isAvailable); return isAvailable
ProbeSettles(c, isAvailable) ==
    /\ probe' = [probe EXCEPT ![c].phase = "done",
                              ![c].result = IF isAvailable THEN "true" ELSE "false"]
    /\ availCache' = [availCache EXCEPT ![probe[c].video.id] =
                            IF isAvailable THEN "yes" ELSE "no"]

ProbeLeaves ==
    UNCHANGED <<currentEmbedIndex, currentVideoData, fallbackVisible, playerSrc,
                playerShown, handlerOwner, timers, probing, viewerPending, mediaEl,
                notification, nSessions, sessVideo, managerVars, historyVars,
                storeVars, analyticsVars>>

\* checkVideoAvailability(video), up to its first fetch
checkVideoAvailability(c, video) ==
    /\ probe[c].phase = "idle"
    /\ \A b \in 1..(c - 1) : probe[b].phase # "idle"
    /\ IF availCache[video.id] # "none"
       THEN \* return this.cache.get(cacheKey)
            /\ probe' = [probe EXCEPT ![c] = [video |-> video, phase |-> "done",
                             result |-> IF availCache[video.id] = "yes" THEN "true"
                                        ELSE "false"]]
            /\ UNCHANGED availCache
       ELSE IF video.type # "direct" /\ ~video.hasUrl
       THEN \* video.url.startsWith throws a TypeError; catch: return false
            /\ probe' = [probe EXCEPT ![c] = [video |-> video, phase |-> "done",
                                              result |-> "false"]]
            /\ UNCHANGED availCache
       ELSE IF video.type = "direct" \/ startsWith(video.url, <<"h", "t", "t", "p">>)
       THEN \* checkDirectUrl: fetch(url, { method: 'HEAD', mode: 'no-cors' })
            /\ probe' = [probe EXCEPT ![c] = [video |-> video, phase |-> "head",
                                              result |-> "none"]]
            /\ UNCHANGED availCache
       ELSE IF video.type \in {"youtube", "drive", "vimeo"}
       THEN \* checkWithFallback: the thumbnail fetch, with AbortSignal.timeout
            /\ probe' = [probe EXCEPT ![c] = [video |-> video, phase |-> "thumbnail",
                                              result |-> "none"]]
            /\ UNCHANGED availCache
       ELSE \* checkWithFallback, default: return true
            /\ probe' = [probe EXCEPT ![c] = [video |-> video, phase |-> "done",
                                              result |-> "true"]]
            /\ availCache' = [availCache EXCEPT ![video.id] = "yes"]
    /\ ProbeLeaves

\* the awaited fetch resolves with a response; only the thumbnail's status
\* is looked at (response.status === 200)
FetchResolves(c, status200) ==
    /\ probe[c].phase \in {"head", "get", "thumbnail"}
    /\ probe[c].phase # "thumbnail" => status200
    /\ ProbeSettles(c, status200)
    /\ ProbeLeaves

\* the awaited fetch rejects with a network error: the HEAD request is
\* followed by the GET request, the others answer false
FetchRejects(c) ==
    /\ probe[c].phase \in {"head", "get", "thumbnail"}
    /\ IF probe[c].phase = "head"
       THEN /\ probe' = [probe EXCEPT ![c].phase = "get"]
            /\ UNCHANGED availCache
       ELSE ProbeSettles(c, FALSE)
    /\ ProbeLeaves

\* AbortSignal.timeout(this.timeout) aborts the fetch it was given to: the
\* GET request of checkDirectUrl or a thumbnail request
ProbeTimeout(c) ==
    /\ probe[c].phase \in {"get", "thumbnail"}
    /\ ProbeSettles(c, FALSE)
    /\ ProbeLeaves

\* EnhancedVideoPlayer's constructor, and a page with no video loaded yet
InitPlayerFields ==
    /\ currentEmbedIndex = 0
    /\ currentVideoData = NoVideo
    /\ fallbackVisible = FALSE
    /\ playerSrc = NoSrc
    /\ playerShown = TRUE
    /\ handlerOwner = 0
    /\ timers = {}
    /\ probing = {}
    /\ availCache = [id \in CacheIds |-> "none"]
    /\ probe = [c \in 1..MaxProbes |-> NoProbe]
    /\ viewerPending = FALSE
    /\ mediaEl = NoMedia
    /\ notification = "none"
    /\ nSessions = 0
    /\ sessVideo = <<>>
    /\ srcLog = <<>>
    /\ evLog = <<>>
    /\ outLog = <<>>
    /\ supersededLive = {}

\* EnhancedVideoManager's constructor
InitManagerFields ==
    /\ allVideos = <<>>
    /\ filteredVideos = <<>>
    /\ currentVideoId = "null"
    /\ recentlyPlayed = <<>>
    /\ currentFilter = "all"
    /\ currentSearchTerm = <<>>
    /\ currentSortOption = "default"
    /\ isLoading = FALSE
    /\ now = 0
    /\ stats = <<>>

\* AirtableService's and DuplicatePreventionService's constructors; no
\* operation started
InitStoreFields ==
    /\ req = [op \in {"load", "add"} |-> IdleRequest]
    /\ loadPc = "idle"
    /\ addPc = "idle"
    /\ addParsed = NoVideo
    /\ videoHashes = {}
    /\ lastCheck = NoCheck
    /\ lastParse = NoParse
    /\ storeCache = EmptyCache

\* The player right after init() has loaded the catalog and before it
\* loads a first video.
InitPlayer ==
    /\ InitPlayerFields
    /\ allVideos = PlayerCatalog
    /\ filteredVideos = PlayerCatalog
    /\ currentVideoId = "null"
    /\ recentlyPlayed = <<>>
    /\ currentFilter = "all"
    /\ currentSearchTerm = <<>>
    /\ currentSortOption = "default"
    /\ isLoading = FALSE
    /\ now = 0
    /\ stats = <<>>
    /\ InitStoreFields
    /\ storeRecords = <<>>
    /\ nextRecordId = 1

NextPlayer ==
    \/ \E i \in 1..Len(PlayerCatalog) : LoadVideo(PlayerCatalog[i])
    \/ \E s \in 1..MaxLoads, ok \in BOOLEAN : ProbeDone(s, ok)
    \/ \E id \in CatalogIds : ExpireAvailability(id)
    \/ \E s \in 1..MaxLoads : StallTimeout(s)
    \/ ViewerLoad
    \/ ViewerError
    \/ \E kind \in {"play", "error", "ended"} : MediaEvent(kind)

SpecPlayer == InitPlayer /\ [][NextPlayer]_vars

\* The page right after the constructors, the record store holding one
\* active and one inactive record.
StoreSeed ==
    << StoreRecord("rec1", <<"s", "1">>, "youtube", "active", TxtAlpha, <<"f", "i", "r", "s", "t">>, <<>>,
                   <<"youtube.com/embed", <<"s", "1">>>>,
                   << <<"youtube.com/embed", <<"s", "1">>>>,
                      <<"youtube-nocookie.com/embed", <<"s", "1">>>> >>),
       StoreRecord("rec2", <<"9">>, "vimeo", "inactive", TxtBeta, <<"s", "e", "c", "o", "n", "d">>, <<>>,
                   <<"player.vimeo.com/video", <<"9">>>>, <<>>) >>

InitCatalog ==
    /\ InitPlayerFields
    /\ InitManagerFields
    /\ InitStoreFields
    /\ storeRecords = StoreSeed
    /\ nextRecordId = Len(StoreSeed) + 1

\* what the user picks in the filter, search and sort controls
Platforms == {"all", "vimeo"}
SearchQueries == {<<>>, <<"a", "l">>}
SortOptions == {"default", "title_desc"}
Statuses == {"active", "inactive"}

\* The catalog against a store that always answers 2xx, with and without
\* a records array: loads, additions and the controls in every order.
NextCatalog ==
    \/ LoadVideosCall
    \/ \E kind \in {"ok", "ok_norecords"} : StoreAnswerLoad(kind)
    \/ \E kind \in {"ok", "ok_norecords"}, status \in Statuses : StoreAnswerAdd(kind, status)
    \/ DeliverLoad
    \/ DeliverAdd
    \/ ExpireStoreCache
    \/ \E url \in AddUrls : AddCustomVideoCall(url)
    \/ \E enhanced \in BOOLEAN : AddMetadataDone(enhanced)
    \/ \E platform \in Platforms : SetFilter(platform)
    \/ \E query \in SearchQueries : SetSearch(query)
    \/ \E sortOption \in SortOptions : SetSort(sortOption)

SpecCatalog == InitCatalog /\ [][NextCatalog]_vars

\* The catalog against a store that answers every request in any of the
\* ways a fetch can end, the controls left alone.
NextRequest ==
    \/ LoadVideosCall
    \/ \E kind \in ResponseKinds : StoreAnswerLoad(kind)
    \/ \E kind \in ResponseKinds, status \in Statuses : StoreAnswerAdd(kind, status)
    \/ DeliverLoad
    \/ DeliverAdd
    \/ \E op \in {"load", "add"} : DelayElapsed(op)
    \/ ExpireStoreCache
    \/ AddCustomVideoCall(UrlOther)

SpecRequest == InitCatalog /\ [][NextRequest]_vars

-----------------------------------------------------------------------------
(* Queries over a loaded catalog *)

TxtNoSuchTerm ==
    <<"z", "z", "_", "n", "o", "_", "s", "u", "c", "h", "_", "t", "e", "r", "m", "_",
      "z", "z">>

\* The remote table of the query behaviours: records of which two agree
\* on each sort key (title, creation time, duration, view count), and the
\* record that addCustomVideo left for the Vimeo URL of the add
\* form when its oEmbed fetch was answered.
QuerySeed ==
    << [StoreRecord("rec1", <<"s", "1">>, "youtube", "active", TxtBeta, <<>>, <<>>,
                    <<"youtube.com/embed", <<"s", "1">>>>, <<>>)
          EXCEPT !.duration = TextDuration(<<"3", ":", "0", "5">>), !.createdAt = 2],
       [StoreRecord("rec2", <<"9">>, "vimeo", "active", TxtAlpha, <<>>, <<>>,
                    <<"player.vimeo.com/video", <<"9">>>>, <<>>)
          EXCEPT !.duration = TextDuration(<<"1", ":", "0", "2", ":", "0", "3">>),
                 !.createdAt = 1, !.viewCount = 20],
       [StoreRecord("rec3", <<"s", "3">>, "youtube", "active", TxtBeta, <<>>, <<>>,
                    <<"youtube.com/embed", <<"s", "3">>>>, <<>>)
          EXCEPT !.duration = TextDuration(<<"3", ":", "0", "5">>), !.createdAt = 1],
       [RecordSent("rec4", "active", Enhanced(ParsedUrl[UrlVimeo]))
          EXCEPT !.createdAt = 3] >>

\* the ids of the videos played before the queries, oldest first: each was
\* loaded by id at times 1, 2, ... and its viewer then fired its load event
PlayHistories ==
    {<<>>, <<"rec3">>, <<"rec1", "rec3">>, <<"rec2", "rec1", "rec2">>}

RECURSIVE LedgerOf(_)
\* this.recentlyPlayed after the plays of a history
LedgerOf(history) ==
    IF history = <<>> THEN <<>>
    ELSE addToRecentlyPlayed(LedgerOf(SubSeq(history, 1, Len(history) - 1)),
                             history[Len(history)], Len(history))

RECURSIVE StatsOf(_)
\* the analytics map after the 'play' events of a history
StatsOf(history) ==
    IF history = <<>> THEN <<>>
    ELSE updateVideoStats(StatsOf(SubSeq(history, 1, Len(history) - 1)),
                          history[Len(history)], "play", Len(history) + 1)

QueryPlatforms == {"all", "youtube", "vimeo"}
QueryTerms == {<<>>, <<"b">>, <<"b", "e">>, <<"B", "A">>, TxtNoSuchTerm}
QuerySortOptions == SortCases \cup {"default"}

\* loadVideos has fetched the table; some videos have been played
InitQuery ==
    /\ InitPlayerFields
    /\ InitStoreFields
    /\ \E history \in PlayHistories :
          /\ now = Len(history) + 1
          /\ recentlyPlayed = LedgerOf(history)
          /\ stats = StatsOf(history)
          /\ currentVideoId = IF history = <<>> THEN "null" ELSE history[Len(history)]
    /\ storeRecords = QuerySeed
    /\ nextRecordId = Len(QuerySeed) + 1
    /\ allVideos = FetchedVideos(QuerySeed)
    /\ filteredVideos = FetchedVideos(QuerySeed)
    /\ currentFilter = "all"
    /\ currentSearchTerm = <<>>
    /\ currentSortOption = "default"
    /\ isLoading = FALSE

NextQuery ==
    \/ \E platform \in QueryPlatforms : SetFilter(platform)
    \/ \E query \in QueryTerms : SetSearch(query)
    \/ \E sortOption \in QuerySortOptions : SetSort(sortOption)

SpecQuery == InitQuery /\ [][NextQuery]_vars

-----------------------------------------------------------------------------
(* DuplicatePreventionService under a client that submits videos *)

TxtSunset == <<"S", "u", "n", "s", "e", "t">>
TxtSunsets == <<"S", "u", "n", "s", "e", "t", "s">>
TxtSunsetz == <<"S", "u", "n", "s", "e", "t", "z">>

\* a submitted video: its videoId, title and originalUrl
Candidate(videoId, title, originalUrl) ==
    Video("none", videoId, "youtube", "none", title, <<>>, <<>>, <<>>, originalUrl)

\* The videos submitted: three whose titles are within one edit of each
\* other (one pair of equal length, two of different lengths), two with
\* the same title and URL, and two with neither title nor URL.
DuplicateCandidates ==
    { Candidate(<<"1">>, TxtSunset, <<"u", "/", "1">>),
      Candidate(<<"2">>, TxtSunsets, <<"u", "/", "2">>),
      Candidate(<<"3">>, TxtSunsetz, <<"u", "/", "3">>),
      Candidate(<<"4">>, TxtOEmbedTitle, <<"c", "/", "c">>),
      Candidate(<<"5">>, TxtOEmbedTitle, <<"c", "/", "c">>),
      Candidate(<<"6">>, <<>>, <<>>),
      Candidate(<<"7">>, <<>>, <<>>) }

\* isDuplicate(videoData, existingVideos) is called on the list of the
\* videos admitted so far, and a video it does not flag is admitted
SubmitVideo(videoData) ==
    /\ Len(allVideos) < MaxAdmitted
    /\ lastCheck' = Checked(videoData, allVideos, videoHashes)
    /\ IF lastCheck'.duplicate
       THEN UNCHANGED <<allVideos, videoHashes>>
       ELSE /\ allVideos' = Append(allVideos, videoData)
            /\ videoHashes' = HashesAfterAdmission(videoData, videoHashes)
    /\ UNCHANGED <<filteredVideos, storeRecords, nextRecordId, storeCache, req, addPc,
                   addParsed, lastParse, loadVars, settingVars, playbackVars>>

InitDuplicate ==
    /\ InitPlayerFields
    /\ InitManagerFields
    /\ InitStoreFields
    /\ storeRecords = <<>>
    /\ nextRecordId = 1

NextDuplicate == \E videoData \in DuplicateCandidates : SubmitVideo(videoData)

SpecDuplicate == InitDuplicate /\ [][NextDuplicate]_vars

-----------------------------------------------------------------------------
(* UniversalVideoParser under a client that calls parseURL *)

\* UniversalVideoParser.parseURL(url) is called
ParseURLCall(url) ==
    /\ lastParse' = ParseCall(url)
    /\ UNCHANGED <<allVideos, filteredVideos, storeRecords, nextRecordId, storeCache,
                   req, addPc, addParsed, videoHashes, lastCheck, loadVars,
                   settingVars, playbackVars>>

NextParser == \E url \in ParserUrls : ParseURLCall(url)

SpecParser == InitDuplicate /\ [][NextParser]_vars

-----------------------------------------------------------------------------
(* VideoAvailabilityChecker under callers and hosts that may stay silent *)

NextProbe ==
    \/ \E c \in 1..MaxProbes, video \in ProbeVideos : checkVideoAvailability(c, video)
    \/ \E c \in 1..MaxProbes, status200 \in BOOLEAN : FetchResolves(c, status200)
    \/ \E c \in 1..MaxProbes : FetchRejects(c)
    \/ \E c \in 1..MaxProbes : ProbeTimeout(c)
    \/ \E id \in ProbeIds : ExpireAvailability(id)

SpecProbe == InitDuplicate /\ [][NextProbe]_vars

-----------------------------------------------------------------------------
(* loadVideos and addCustomVideo followed to their return *)

\* what the store answers and what the add form is given in these
\* behaviours: a 2xx or a client error; nothing, a Vimeo URL, a media file
\* and a URL that btoa refuses
OperationKinds == {"ok", "4xx"}
OperationUrls == {<<>>, UrlVimeo, UrlDirect, UrlCyrillic}

\* Loads and additions in every order, the controls left alone.
NextOperations ==
    \/ LoadVideosCall
    \/ \E kind \in OperationKinds : StoreAnswerLoad(kind)
    \/ \E kind \in OperationKinds : StoreAnswerAdd(kind, "active")
    \/ DeliverLoad
    \/ DeliverAdd
    \/ \E op \in {"load", "add"} : DelayElapsed(op)
    \/ ExpireStoreCache
    \/ \E url \in OperationUrls : AddCustomVideoCall(url)
    \/ \E ok \in BOOLEAN : AddProbeDone(ok)
    \/ \E enhanced \in BOOLEAN : AddMetadataDone(enhanced)

SpecOperations == InitCatalog /\ [][NextOperations]_vars

-----------------------------------------------------------------------------
(* The probe's fair behaviours *)

\* The timers of the program fire; a host owes no answer.
FairSpecProbe ==
    /\ SpecProbe
    /\ \A c \in 1..MaxProbes : WF_vars(ProbeTimeout(c))

-----------------------------------------------------------------------------
(* The buttons, the list and the add form of a loaded catalog *)

\* an index that stops at the last entry instead of wrapping
NextIndexClamped(view, id) == Min(FindIndexById(view, id) + 1, Len(view))

\* nextVideo's index into a non-empty view (from 1): the one after the
\* current entry's, the first after the last and when findIndex gives -1
nextIndex(view, id) ==
    IF FindIndexById(view, id) + 1 > Len(view) THEN 1
    ELSE FindIndexById(view, id) + 1

\* prevVideo's index into a non-empty view (from 1): the one before the
\* current entry's, the last before the first and when findIndex gives -1
prevIndex(view, id) ==
    IF FindIndexById(view, id) - 1 < 1 THEN Len(view)
    ELSE FindIndexById(view, id) - 1

\* nextVideo(), prevVideo(): the entry the call returns, NoVideo for null
nextVideo(m) ==
    IF m.view = <<>> THEN NoVideo ELSE m.view[nextIndex(m.view, m.currentVideoId)]

prevVideo(m) ==
    IF m.view = <<>> THEN NoVideo ELSE m.view[prevIndex(m.view, m.currentVideoId)]

\* the click handler of a navigation button, video being what nextVideo or
\* prevVideo returned after its loadVideoById: if (video) loadVideo(video)
Navigate(video) ==
    /\ IF video = NoVideo
       THEN UNCHANGED playbackVars
       ELSE /\ LoadVideoIn(video, Selected(ManagerNow, video.id))
    /\ UNCHANGED <<allVideos, filteredVideos, currentFilter, currentSearchTerm,
                   currentSortOption, isLoading>>
    /\ UNCHANGED storeVars

NextClick == Navigate(nextVideo(ManagerNow))

PrevClick == Navigate(prevVideo(ManagerNow))

\* a click on the i-th item of the list
ListClick(i) ==
    /\ i <= Len(filteredVideos)
    /\ LoadVideo(filteredVideos[i])

\* the POST's response reaches the page while the add form's handler
\* awaits addCustomVideo: the call runs to its end and, when it returns the
\* created video, the handler calls loadVideo(video)
AddClickEnds ==
    /\ DeliverAddEnds
    /\ IF addPc' = "idle" /\ RequestOutcome(req.add) = "ok" /\ ~ViewThrows(allVideos')
       THEN LoadVideoIn(allVideos'[Len(allVideos')],
                        [ManagerNow EXCEPT !.view = filteredVideos'])
       ELSE UNCHANGED playbackVars

\* the remote table of the navigation behaviours
NavigationSeed ==
    << StoreRecord("rec1", <<"s", "1">>, "youtube", "active", TxtAlpha, <<>>, <<>>,
                   <<"youtube.com/embed", <<"s", "1">>>>,
                   << <<"youtube.com/embed", <<"s", "1">>>>,
                      <<"youtube-nocookie.com/embed", <<"s", "1">>>> >>),
       StoreRecord("rec2", <<"s", "2">>, "youtube", "active", TxtBeta, <<>>, <<>>,
                   <<"youtube.com/embed", <<"s", "2">>>>, <<>>) >>

\* init() has loaded the catalog and not yet loaded a first video
InitNavigation ==
    /\ InitPlayerFields
    /\ InitStoreFields
    /\ now = 1
    /\ storeRecords = NavigationSeed
    /\ nextRecordId = Len(NavigationSeed) + 1
    /\ allVideos = FetchedVideos(NavigationSeed)
    /\ filteredVideos = FetchedVideos(NavigationSeed)
    /\ currentVideoId = "null"
    /\ recentlyPlayed = <<>>
    /\ currentFilter = "all"
    /\ currentSearchTerm = <<>>
    /\ currentSortOption = "default"
    /\ isLoading = FALSE
    /\ stats = <<>>

NavigationPlatforms == {"all", "youtube", "vimeo", "direct"}
NavigationUrls == {UrlVimeo, UrlDirect}

NextNavigation ==
    \/ \E platform \in NavigationPlatforms : SetFilter(platform)
    \/ \E i \in 1..MaxAdmitted : ListClick(i)
    \/ NextClick
    \/ PrevClick
    \/ \E url \in NavigationUrls : AddCustomVideoCall(url)
    \/ \E ok \in BOOLEAN : AddProbeDone(ok)
    \/ \E enhanced \in BOOLEAN : AddMetadataDone(enhanced)
    \/ StoreAnswerAdd("ok", "active")
    \/ AddClickEnds

SpecNavigation == InitNavigation /\ [][NextNavigation]_vars

-----------------------------------------------------------------------------
(* The player's claims.  cur is the latest loadVideo call; the history      *)
(* variables hold what happened since it was made.                          *)

cur == nSessions
curVideo == sessVideo[cur]
curUrls == EmbedUrlsOf(curVideo)
Kinds(log) == [i \in 1..Len(log) |-> log[i].kind]
Urls(log) == [i \in 1..Len(log) |-> log[i].url]
ErrRun(k) == [i \in 1..k |-> "error"]
\* every event since the latest call was handled by that call's own closures
OwnEvents == \A i \in 1..Len(evLog) : evLog[i].sess = cur
EmbedSession == nSessions > 0 /\ curVideo.type # "direct"

\* C1: a non-direct video with N candidates whose viewer signals error on
\* candidates 1..N-1 and success on candidate N has had the viewer source
\* set to each of the N candidates once, in order, and ends Loaded; when all
\* N signal error it ends Failed, each candidate attempted once.
C1_SequentialFallback ==
    (EmbedSession /\ OwnEvents) =>
        LET N == Len(curUrls) IN
        /\ \A k \in 0..(N - 1) :
              Kinds(evLog) = <<"probe_ok">> \o ErrRun(k) =>
                  /\ Urls(srcLog) = SubSeq(curUrls, 1, k + 1)
                  /\ outLog = <<>>
        /\ Kinds(evLog) = <<"probe_ok">> \o ErrRun(N - 1) \o <<"load">> =>
              /\ Urls(srcLog) = curUrls
              /\ \A i \in 1..Len(srcLog) : srcLog[i].sess = cur
              /\ outLog = <<Ev("Loaded", cur)>>
              /\ ~fallbackVisible
        /\ Kinds(evLog) = <<"probe_ok">> \o ErrRun(N) =>
              /\ Urls(srcLog) = curUrls
              /\ \A i \in 1..Len(srcLog) : srcLog[i].sess = cur
              /\ outLog = <<Ev("Failed", cur)>>
              /\ fallbackVisible

\* C1's case: the entry with the most candidates, all but the last failed
C1_Witness ==
    /\ EmbedSession /\ OwnEvents
    /\ Len(curUrls) = MaxCandidates
    /\ Kinds(evLog) = <<"probe_ok">> \o ErrRun(MaxCandidates - 1) \o <<"load">>
    /\ outLog = <<Ev("Loaded", cur)>>

\* C2: when the stall timeout of the current candidate elapses with no
\* signal, the session is where an explicit error would have put it: on the
\* next candidate when one exists, Failed only when none remains.
C2_StallAdvancesLikeError ==
    (EmbedSession /\ OwnEvents) =>
        \A k \in 0..(Len(curUrls) - 1) :
            Kinds(evLog) = <<"probe_ok">> \o ErrRun(k) \o <<"timeout">> =>
                IF k + 1 < Len(curUrls)
                THEN /\ currentEmbedIndex = k + 1
                     /\ playerSrc = curUrls[k + 2]
                     /\ ~fallbackVisible
                     /\ outLog = <<>>
                ELSE /\ fallbackVisible
                     /\ outLog = <<Ev("Failed", cur)>>

\* C3: a call that had shown no outcome when a call for a different video
\* superseded it shows no Loaded or Failed outcome afterwards.
C3_SupersededIsSilent ==
    \A i \in 1..Len(outLog) :
        ~ /\ outLog[i].sess \in supersededLive
          /\ sessVideo[outLog[i].sess].id # sessVideo[outLog[i].sess + 1].id

\* C4: only the latest call is live: since it was made no earlier call has
\* written the viewer source, the embed index or the viewer's handlers, and
\* no earlier call's stall timer is pending.
C4_LastWriterWins ==
    /\ \A i \in 1..Len(srcLog) : srcLog[i].sess = cur
    /\ \A i \in 1..Len(evLog) :
          evLog[i].kind \in {"probe_ok", "error"} => evLog[i].sess = cur
    /\ timers \subseteq {cur}

\* C5: a failed or inconclusive probe does not block playback: the call
\* still sets the viewer source to its first candidate.
C5_ProbeFailureDoesNotBlock ==
    (EmbedSession /\ \E i \in 1..Len(evLog) : evLog[i] = Ev("probe_fail", cur)) =>
        \E i \in 1..Len(srcLog) : srcLog[i] = SrcWrite(cur, curUrls[1])

\* C6: a direct video never runs the probe, the stall timer or the iframe
\* sequence; the media element plays the first URL and the session shows
\* one outcome, Failed when the media element reports an error.
C6_DirectBypass ==
    (nSessions > 0 /\ curVideo.type = "direct") =>
        /\ cur \notin probing
        /\ cur \notin timers
        /\ \A i \in 1..Len(srcLog) : srcLog[i].sess # cur
        /\ \A i \in 1..Len(evLog) : evLog[i].sess # cur
        /\ mediaEl.sess = cur
        /\ mediaEl.src = curUrls[1]
        /\ Cardinality({i \in 1..Len(outLog) : outLog[i].sess = cur}) = 1
        /\ mediaEl.state = "error" =>
              /\ fallbackVisible
              /\ \E i \in 1..Len(outLog) : outLog[i] = Ev("Failed", cur)

-----------------------------------------------------------------------------
(* The catalog's claims *)

\* C7: no entry with status inactive is present in allVideos or in
\* filteredVideos, whatever status the record store gives the records it
\* returns.
C7_InactiveExcluded ==
    /\ \A i \in 1..Len(allVideos) : allVideos[i].status # "inactive"
    /\ \A i \in 1..Len(filteredVideos) : filteredVideos[i].status # "inactive"

\* C8: allVideos never holds two entries with the same id, and every id in
\* allVideos is one the record store has assigned.
C8_RecordIdUnique ==
    /\ \A i, j \in 1..Len(allVideos) : allVideos[i].id = allVideos[j].id => i = j
    /\ \A i \in 1..Len(allVideos) :
          \E k \in 1..(nextRecordId - 1) : allVideos[i].id = RecordIds[k]

\* a step of loadVideos or of its request, and the step in which the call
\* returns the fetched catalog
LoadStep == req'.load # req.load \/ loadPc' # loadPc \/ isLoading' # isLoading
LoadSucceeds == loadPc = "waiting" /\ loadPc' = "idle" /\ req.load.resp.kind = "ok"
\* a step of addCustomVideo or of its request, and the step in which the
\* call returns the created video
AddStep == req'.add # req.add \/ addPc' # addPc \/ videoHashes' # videoHashes
AddSucceeds == addPc = "request" /\ addPc' = "idle" /\ req.add.resp.kind = "ok"

\* C9: a loadVideos or addCustomVideo call whose store operation fails
\* leaves allVideos and filteredVideos as they were: no step of a call
\* changes them except the one in which the call returns with success.
C9_FailureLeavesCatalog ==
    [][ ((LoadStep /\ ~LoadSucceeds) \/ (AddStep /\ ~AddSucceeds))
            => UNCHANGED <<allVideos, filteredVideos>> ]_vars

\* C9's case: a catalog is loaded and a later load has failed after the
\* whole retry budget, an addition having failed on a response without
\* records
C9_Witness ==
    /\ allVideos # <<>>
    /\ loadPc = "idle" /\ req.load.state = "rejected" /\ req.load.fetches = RetryCount + 1
    /\ addPc = "idle" /\ req.add.state = "resolved" /\ req.add.fetches = 1
    /\ \A i \in 1..Len(storeRecords) : storeRecords[i].id \in {"rec1", "rec2"}

\* C10: one handleRequest call issues at most retryCount + 1 fetches, is
\* rejected when all of them have failed, and on the first successful
\* response resolves, no fetch being issued after it.
C10_BoundedRetries ==
    \A op \in {"load", "add"} :
        LET r == req[op] IN
        /\ r.fetches <= RetryCount + 1
        /\ r.answers <= r.fetches
        /\ (r.answers = RetryCount + 1 /\ r.oks = 0) => r.state = "rejected"
        /\ r.state = "rejected" => r.oks = 0
        /\ r.oks <= 1
        /\ r.oks = 1 => (r.state = "resolved" /\ r.fetches = r.answers)
        /\ r.state = "resolved" => r.oks = 1

\* C10's case: one request rejected after four failed fetches, the other
\* resolved by its third
C10_Witness ==
    /\ req.load.state = "rejected" /\ req.load.fetches = RetryCount + 1
    /\ req.add.state = "resolved" /\ req.add.fetches = RetryCount

\* C15: the popularity score of every entry is viewCount + 10 times the
\* play count of its record in the recently-played ledger, and nothing else
C15_PopularityScore ==
    \A i \in 1..Len(allVideos) :
        calculatePopularityScore(allVideos[i], recentlyPlayed, stats)
            = 2 * (ViewCountOf(allVideos[i])
                   + 10 * PlayCountIn(recentlyPlayed, allVideos[i].id))

-----------------------------------------------------------------------------
(* The recently-played ledger on a catalog larger than its capacity *)

\* the id of the i-th entry of the ledger's catalog
LedgerId(i) == <<"rec", i>>

LedgerCatalog ==
    [i \in 1..MaxLedgerEntries |-> Entry(LedgerId(i), "youtube", "active", <<>>, EmbedList("L", 1))]

\* this.recentlyPlayed after entries 1..k have been played once each, in
\* that order, the last of them at time t
LedgerAfter(k, t) ==
    [j \in 1..Min(k, RecentCapacity) |->
        [id |-> LedgerId(k - j + 1), playedAt |-> t - j + 1, playCount |-> 1]]

\* the ids played in a behaviour: early, middle, last-kept and beyond the
\* capacity
PlayIds == {1, 2, RecentCapacity, RecentCapacity + 1, MaxLedgerEntries}

\* loadVideoById(id) is called (by the player's loadVideo, playNext or
\* playPrevious)
PlayById(id) ==
    /\ now < MaxLedgerEntries + MaxPlays
    /\ loadVideoById(id)
    /\ UNCHANGED <<allVideos, filteredVideos, currentFilter, currentSearchTerm,
                   currentSortOption, isLoading, playerVars, historyVars, storeVars,
                   analyticsVars>>

\* a session in which entries 1..k have been played in order
InitLedger ==
    /\ InitPlayerFields
    /\ InitStoreFields
    /\ storeRecords = <<>>
    /\ nextRecordId = 1
    /\ allVideos = LedgerCatalog
    /\ filteredVideos = LedgerCatalog
    /\ currentFilter = "all"
    /\ currentSearchTerm = <<>>
    /\ currentSortOption = "default"
    /\ isLoading = FALSE
    /\ now = MaxLedgerEntries
    /\ stats = <<>>
    /\ \E k \in 0..RecentCapacity :
          /\ recentlyPlayed = LedgerAfter(k, MaxLedgerEntries - 1)
          /\ currentVideoId = IF k = 0 THEN "null" ELSE LedgerId(k)

NextLedger == \E i \in PlayIds : PlayById(LedgerId(i))

SpecLedger == InitLedger /\ [][NextLedger]_vars

-----------------------------------------------------------------------------
(* The ledger's claims *)

Played == recentlyPlayed' # recentlyPlayed
\* rp without the record of id, in the same order
Without(rp, id) == SelectSeq(rp, LAMBDA r : r.id # id)

\* C12: the ledger never holds more than 50 records, and a play of an entry
\* not in a full ledger drops the record played least recently, the last one
C12_LedgerCapacity ==
    /\ [](Len(recentlyPlayed) <= RecentCapacity)
    /\ [][ (Played /\ Len(recentlyPlayed) = RecentCapacity
               /\ FindIndexById(recentlyPlayed, currentVideoId') = 0)
            => /\ Len(recentlyPlayed') = RecentCapacity
               /\ SubSeq(recentlyPlayed', 2, RecentCapacity)
                     = SubSeq(recentlyPlayed, 1, RecentCapacity - 1)
               /\ \A j \in 1..(RecentCapacity - 1) :
                     recentlyPlayed[RecentCapacity].playedAt < recentlyPlayed[j].playedAt ]_vars

C12_Witness ==
    /\ Len(recentlyPlayed) = RecentCapacity
    /\ recentlyPlayed[1].id = LedgerId(RecentCapacity + 1)
    /\ recentlyPlayed[RecentCapacity].id = LedgerId(2)

\* C13: at most one record per entry id; after a play the front record is
\* the played entry's and the other records keep their relative order
C13_LedgerKeyedAndOrdered ==
    /\ [](\A i, j \in 1..Len(recentlyPlayed) :
            recentlyPlayed[i].id = recentlyPlayed[j].id => i = j)
    /\ [][ Played =>
            /\ recentlyPlayed'[1].id = currentVideoId'
            /\ LET others == Without(recentlyPlayed, currentVideoId')
               IN SubSeq(recentlyPlayed', 2, Len(recentlyPlayed'))
                    = SubSeq(others, 1, Min(Len(others), RecentCapacity - 1)) ]_vars

C13_Witness ==
    /\ Len(recentlyPlayed) = RecentCapacity
    /\ recentlyPlayed[1].id = LedgerId(2)
    /\ recentlyPlayed[2].id = LedgerId(RecentCapacity)
    /\ recentlyPlayed[RecentCapacity].id = LedgerId(1)

\* C14: a replay of an entry whose record has playCount k leaves its record
\* with playCount k + 1
C14_ReplayIncrements ==
    [][ (Played /\ FindIndexById(recentlyPlayed, currentVideoId') # 0)
        => recentlyPlayed'[1].playCount
             = PlayCountIn(recentlyPlayed, currentVideoId') + 1 ]_vars

\* C11: a 4xx response other than 429 is not retried: once handleRequest has
\* handled it the request is rejected, and no further fetch is issued
C11_ClientErrorNotRetried ==
    [][ \A op \in {"load", "add"} :
          (req[op].state = "answered" /\ req[op].resp.kind = "4xx" /\ req'[op] # req[op])
              => (req'[op].state = "rejected" /\ req'[op].fetches = req[op].fetches) ]_vars

-----------------------------------------------------------------------------
(* The queries' claims *)

\* the list applyFiltersAndSearch hands to sortVideos under the settings
QueryInput == Searched(allVideos, currentFilter, currentSearchTerm)

\* the position of the entry with the id
PositionIn(videos, id) == FindIndexById(videos, id)

\* output holds exactly the entries of input, and two entries that compare
\* equal under the sort option stand in it in the order they had in input
IsStablePermutation(input, output, sortOption) ==
    /\ Len(output) = Len(input)
    /\ \A i \in 1..Len(input) : \E k \in 1..Len(output) : output[k] = input[i]
    /\ \A i, j \in 1..Len(input) :
          (i < j /\ SortCompare(input[i], input[j], sortOption) = 0)
              => PositionIn(output, input[i].id) < PositionIn(output, input[j].id)

\* C16: for every sort key, sortVideos returns a permutation of the list it
\* is given in which entries with equal key keep their relative order.
C16_SortStable ==
    \A sortOption \in SortCases :
        /\ ~sortVideosThrows(QueryInput, sortOption)
        /\ IsStablePermutation(QueryInput, sortVideos(QueryInput, sortOption), sortOption)

\* a step of a query handler: a setting changes
QueryStep ==
    \/ currentFilter' # currentFilter
    \/ currentSearchTerm' # currentSearchTerm
    \/ currentSortOption' # currentSortOption

\* C17: a query (a change of the platform filter, of the search term or of
\* the sort key, each followed by applyFiltersAndSearch) leaves allVideos,
\* contents and order, and the recently-played ledger as they were.
C17_QueryKeepsCatalog ==
    [][QueryStep => (allVideos' = allVideos /\ recentlyPlayed' = recentlyPlayed)]_vars

\* a query has filtered and reordered the view of a catalog with a ledger
C17_Witness ==
    /\ currentSortOption = "date_asc"
    /\ currentFilter = "youtube"
    /\ Len(filteredVideos) = 2
    /\ filteredVideos[1].id = "rec3"
    /\ allVideos[1].id = "rec1"
    /\ Len(recentlyPlayed) = 2

\* C18: while the search term is "zz_no_such_term_zz", which no field of
\* any entry matches, filteredVideos is empty, whatever the platform filter
\* and the sort key.
C18_NoMatchIsEmpty ==
    currentSearchTerm = TxtNoSuchTerm => filteredVideos = <<>>

\* the term has been searched in a non-empty catalog, then a filter and a
\* sort key chosen
C18_Witness ==
    /\ currentSearchTerm = TxtNoSuchTerm
    /\ Len(allVideos) = 4
    /\ currentFilter = "vimeo"
    /\ currentSortOption = "duration_desc"
    /\ filteredVideos = <<>>

-----------------------------------------------------------------------------
(* The duplicate check's claims *)

RECURSIVE Levenshtein(_, _)
\* the edit distance of two texts by its defining recursion
Levenshtein(a, b) ==
    IF a = <<>> THEN Len(b)
    ELSE IF b = <<>> THEN Len(a)
    ELSE LET restA == SubSeq(a, 2, Len(a))
             restB == SubSeq(b, 2, Len(b))
         IN IF a[1] = b[1] THEN Levenshtein(restA, restB)
            ELSE 1 + Min(Levenshtein(restA, restB),
                         Min(Levenshtein(restA, b), Levenshtein(a, restB)))

CandidateTitles == {v.title : v \in DuplicateCandidates}

LevenshteinOf == [pair \in CandidateTitles \X CandidateTitles |->
                     Levenshtein(pair[1], pair[2])]

\* the edit distance of the two titles, divided by the length of the
\* longer, leaves a similarity above 0.85
TitlesSimilar(a, b) ==
    LET longest == IF Len(a) > Len(b) THEN Len(a) ELSE Len(b)
    IN (longest - LevenshteinOf[<<a, b>>]) * 100 > 85 * longest

\* the list the latest isDuplicate call was given
CheckedAgainst ==
    IF lastCheck.duplicate \/ lastCheck = NoCheck THEN allVideos
    ELSE SubSeq(allVideos, 1, Len(allVideos) - 1)

\* C19: a submitted video whose title is similar (above 0.85) to the title
\* of a video admitted before it is flagged, whichever of the two came
\* first; checkSimilarity gives the same answer for (a, b) and (b, a).
C19_DuplicateSymmetric ==
    /\ (\E i \in 1..Len(CheckedAgainst) :
           TitlesSimilar(CheckedAgainst[i].title, lastCheck.candidate.title))
          => lastCheck.duplicate
    /\ \A a, b \in DuplicateCandidates :
          checkSimilarity(a, b, SimilarityThreshold)
              = checkSimilarity(b, a, SimilarityThreshold)

\* "Sunsets" was admitted first and "Sunset", submitted second, is flagged
C19_Witness ==
    /\ Len(allVideos) = 1
    /\ allVideos[1].title = TxtSunsets
    /\ lastCheck.candidate.title = TxtSunset
    /\ lastCheck.duplicate

\* C20: a submitted video is flagged whenever the list holds a video with
\* the same title and the same original URL, also when both titles and
\* both URLs are empty.
C20_IdenticalFlagged ==
    (\E i \in 1..Len(CheckedAgainst) :
        /\ CheckedAgainst[i].title = lastCheck.candidate.title
        /\ CheckedAgainst[i].originalUrl = lastCheck.candidate.originalUrl)
       => lastCheck.duplicate

-----------------------------------------------------------------------------
(* The parser's claims *)

\* one of the platform matchers of parseURL matches the string
MatcherMatches(url) ==
    \/ parseYouTube(url) # NoMatch
    \/ parseVimeo(url) # NoMatch
    \/ isVideo(url)

\* C21: every call of parseURL ends with a result, and for a string that no
\* platform matcher matches the result has type other and the string as its
\* only embed URL.
C21_ParseTotal ==
    lastParse # NoParse =>
        /\ lastParse.outcome = "result"
        /\ ~MatcherMatches(lastParse.url) =>
              /\ lastParse.result.type = "other"
              /\ lastParse.result.embedUrls = << <<"url", lastParse.url>> >>

\* C22: the result of parseURL carries the string it was called on as its
\* originalUrl, for every platform and for the fallback.
C22_OriginalUrlKept ==
    lastParse.outcome = "result" => lastParse.result.originalUrl = lastParse.url

-----------------------------------------------------------------------------
(* The availability probe's claims *)

\* C23: every checkVideoAvailability call that was started eventually
\* settles with a boolean, also when no host ever answers.
C23_ProbeSettles ==
    \A c \in 1..MaxProbes :
        (probe[c].phase # "idle")
            ~> (probe[c].phase = "done" /\ probe[c].result \in {"true", "false"})

-----------------------------------------------------------------------------
(* The claims about what loadVideos and addCustomVideo return *)

\* the promise of the loadVideos call that ends in this step settles with
LoadVideosSettlesWith ==
    loadVideosReturns(
        (loadPc = "waiting" /\ RequestOutcome(req.load) # "ok") \/ ViewThrows(allVideos'))

\* the promise of the addCustomVideo call that ends in this step, after
\* its POST was answered, settles with
AddCustomVideoSettlesWith ==
    addCustomVideoReturns(RequestOutcome(req.add) # "ok" \/ ViewThrows(allVideos'))

C25_DuplicateNoEffect ==
    [][\A url \in OperationUrls :
          (/\ url # <<>>
           /\ parseURLOutcome(url) = "result"
           /\ AddCustomVideoCall(url)
           /\ lastCheck'.duplicate)
          => /\ req'.add = req.add
             /\ addPc' = "idle"
             /\ allVideos' = allVideos
             /\ storeRecords' = storeRecords
             /\ videoHashes' = videoHashes
             /\ addCustomVideoReturnsAtOnce(url, allVideos, videoHashes)
                  = [value |-> "null", notice |-> "warning"]
      ]_vars

\* a duplicate has just been rejected while the catalog holds the entry
\* it duplicates and no request is under way
C25_Witness ==
    /\ lastCheck.duplicate
    /\ addPc = "idle"
    /\ req.add.state \notin {"sent", "answered", "delaying"}
    /\ \E i \in 1..Len(allVideos) : allVideos[i].videoId = lastCheck.candidate.videoId

-----------------------------------------------------------------------------
(* The claims about the sequence of attempts *)

\* this step sets the viewer source to a later candidate of the current
\* call, which alone has handled events since it was made
Advances ==
    /\ EmbedSession /\ OwnEvents
    /\ nSessions' = nSessions
    /\ Len(srcLog) >= 1
    /\ Len(srcLog') = Len(srcLog) + 1
    /\ srcLog'[Len(srcLog')].sess = cur

\* C26: within one session the viewer source is set to candidate i+1 only in
\* the step that resolves attempt i by an error: attempt i is the one the
\* viewer is working on, it has not succeeded, and after the step the
\* viewer works on candidate i+1 alone.
C26_AttemptsSequential ==
    [][Advances =>
          LET i == Len(srcLog) IN
          /\ viewerPending
          /\ playerSrc = curUrls[i]
          /\ srcLog[i] = SrcWrite(cur, curUrls[i])
          /\ evLog' = Append(evLog, Ev("error", cur))
          /\ \A k \in 1..Len(outLog) : outLog[k] # Ev("Loaded", cur)
          /\ playerSrc' = curUrls[i + 1]
          /\ srcLog' = Append(srcLog, SrcWrite(cur, curUrls[i + 1]))
          /\ viewerPending'
      ]_vars

\* the last candidate of the longest list is being attempted after every
\* earlier one ended in an error
C26_Witness ==
    /\ EmbedSession /\ OwnEvents
    /\ Len(curUrls) = MaxCandidates
    /\ Urls(srcLog) = curUrls
    /\ Kinds(evLog) = <<"probe_ok">> \o ErrRun(MaxCandidates - 1)
    /\ viewerPending
    /\ playerSrc = curUrls[MaxCandidates]

\* a candidate of the current call is loading: the viewer works on it and
\* the call has shown no outcome
CandidateLoading ==
    /\ EmbedSession /\ OwnEvents
    /\ viewerPending
    /\ outLog = <<>>
    /\ \E i \in 1..Len(curUrls) : playerSrc = curUrls[i]

\* C27: in every state where a candidate is loading, a stall timer of the
\* call is pending, for the attempts started after an embed error too.
C27_TimerPerAttempt == CandidateLoading => cur \in timers

\* C28: whenever the fallback message is visible for a non-direct video,
\* every embed candidate of the video has been attempted.
C28_FailedOnlyWhenExhausted ==
    (EmbedSession /\ OwnEvents /\ fallbackVisible) => Urls(srcLog) = curUrls

\* C29: a call shows Loaded only on a load signal that comes while its
\* stall timer is pending, and once it has shown Failed it shows no Loaded
\* outcome.
C29_TerminalAbsorbing ==
    /\ []((EmbedSession /\ OwnEvents) =>
            \A i, j \in 1..Len(outLog) :
                ~(i < j /\ outLog[i] = Ev("Failed", cur)
                        /\ outLog[j] = Ev("Loaded", cur)))
    /\ [][(EmbedSession /\ OwnEvents /\ nSessions' = nSessions
             /\ outLog' = Append(outLog, Ev("Loaded", cur)))
            => (cur \in timers /\ evLog' = Append(evLog, Ev("load", cur)))]_vars

-----------------------------------------------------------------------------
(* The claim about retries *)

\* C30: the retries of one request are serialized and wait longer each
\* time: a fetch is issued only when the previous one has been handled and
\* the delay is over, and the delay before a retry is greater than the
\* delay before the previous one.
C30_RetriesBackOff ==
    [][\A op \in {"load", "add"} :
          /\ (req'[op].fetches > req[op].fetches /\ req[op].fetches >= 1)
               => /\ req[op].state = "delaying"
                  /\ req[op].answers = req[op].fetches
                  /\ req'[op].fetches = req[op].fetches + 1
          /\ (req[op].state = "answered" /\ req'[op].state = "delaying"
                /\ req[op].fetches >= 2)
               => req'[op].delay > req[op].delay
      ]_vars

-----------------------------------------------------------------------------
(* The search's claims *)

RECURSIVE IsSubsequence(_, _)
\* the characters of term stand in text in order, at any positions
IsSubsequence(term, text) ==
    \/ term = <<>>
    \/ \E k \in 1..Len(text) :
          /\ text[k] = term[1]
          /\ IsSubsequence(Tail(term), SubSeq(text, k + 1, Len(text)))

\* the lowercased term is a subsequence of the lowercased value of one of
\* the fields title, description, type, tags, category, author
TermFound(video, term) ==
    \E value \in {video.title, video.description, TypeText(video.type),
                  video.tags, video.category, video.author} :
        IsSubsequence(toLowerCase(term), toLowerCase(value))

\* the entries of the catalog that pass the platform filter
OfCurrentPlatform ==
    {video \in Range(allVideos) :
        currentFilter = "all" \/ video.type = currentFilter}

\* C31: the entries that applyFiltersAndSearch keeps are exactly the
\* entries of the platform whose fields hold the search term as a
\* subsequence when the term has at least 2 characters, and every entry of
\* the platform when the term is shorter; they are the entries of the view
\* whenever the sort that follows returns.
C31_SearchSubsequence ==
    /\ Range(QueryInput) =
          {video \in OfCurrentPlatform :
              Len(currentSearchTerm) >= 2 => TermFound(video, currentSearchTerm)}
    /\ Len(QueryInput) = Cardinality(Range(QueryInput))
    /\ ~sortVideosThrows(QueryInput, currentSortOption)
          => Range(filteredVideos) = Range(QueryInput)

\* the term "BA" was searched: it stands in "beta", letters apart and in
\* the other case, and not in every entry
C31_Witness ==
    /\ currentSearchTerm = <<"B", "A">>
    /\ currentFilter = "all"
    /\ \E video \in Range(filteredVideos) : video.title = TxtBeta
    /\ 0 < Len(filteredVideos) /\ Len(filteredVideos) < Len(allVideos)

-----------------------------------------------------------------------------
(* The claim about the order of the matchers *)

\* the host names of the platforms whose matchers parseURL tries first
PlatformHosts ==
    {<<"y", "o", "u", "t", "u", ".", "b", "e", "/">>,
     <<"v", "i", "m", "e", "o", ".", "c", "o", "m", "/">>}

OnPlatformHost(url) == \E host \in PlatformHosts : includes(url, host)

\* C32: the result of parseURL is that of the earliest matcher that matches
\* (YouTube before Vimeo before the direct file matcher), and a URL on the
\* host of a platform that holds a video file extension is never classified
\* as direct.
C32_FirstMatchWins ==
    lastParse.outcome = "result" =>
        /\ parseYouTube(lastParse.url) # NoMatch
              => lastParse.result.type \in {"youtube", "youtube_playlist"}
        /\ (parseYouTube(lastParse.url) = NoMatch /\ parseVimeo(lastParse.url) # NoMatch)
              => lastParse.result.type = "vimeo"
        /\ (OnPlatformHost(lastParse.url) /\ isVideo(lastParse.url))
              => lastParse.result.type # "direct"

-----------------------------------------------------------------------------
(* The claim about the admitted entry *)

\* addCustomVideo pushes the created video in this step
Admits ==
    /\ DeliverAdd
    /\ Len(allVideos') = Len(allVideos) + 1

\* C33: the entry that addCustomVideo adds to allVideos has the embed URLs,
\* in order, of the parsed video it admits.
C33_AdmittedKeepsCandidates ==
    [][Admits => allVideos'[Len(allVideos')].embedUrls = addParsed.embedUrls]_vars

-----------------------------------------------------------------------------
(* The claim about the errors shown to the user *)

\* the messages of the record store's transport: status lines and the
\* messages of fetch and of the body parser
TransportMessages ==
    {handleRequestError(kind) : kind \in ResponseKinds \ {"ok", "ok_norecords"}}

\* the call of loadVideos, of addCustomVideo, ends in this step in its
\* catch block
LoadFails == DeliverLoad /\ loadPc' = "idle" /\ LoadVideosSettlesWith = "empty"
AddFails == DeliverAdd /\ addPc' = "idle" /\ AddCustomVideoSettlesWith.value = "null"

\* C34: the error notification of a failed loadVideos or addCustomVideo
\* call never carries a message of the record store's transport.
C34_NoTransportError ==
    [][/\ LoadFails =>
             loadVideosNotice(req.load.resp.kind, ViewThrows(allVideos')).message
                 \notin TransportMessages
       /\ AddFails =>
             addCustomVideoNotice(req.add.resp.kind, ViewThrows(allVideos')).message
                 \notin TransportMessages
      ]_vars

-----------------------------------------------------------------------------
(* The claim about what the duplicate guard remembers *)

\* addCustomVideo(url) is called again for the video it checked last and
\* found new, after the store rejected its insert, and no entry of the
\* catalog resembles the video
Resubmits(url) ==
    /\ AddCustomVideoCall(url)
    /\ lastParse'.outcome = "result"
    /\ lastCheck.candidate = lastParse'.result
    /\ ~lastCheck.duplicate
    /\ req.add.state = "rejected"
    /\ ~isDuplicate(lastParse'.result, allVideos, {})

\* C35: a video whose admission failed after the duplicate check is not
\* rejected as a duplicate when it is submitted again: isDuplicate gives the
\* same verdict for the same candidate and the same entries.
C35_GuardRemembersAdmitted ==
    [][\A url \in OperationUrls : Resubmits(url) => ~lastCheck'.duplicate]_vars

-----------------------------------------------------------------------------
(* The claims about the selected entry and the navigation buttons *)

\* loadVideo(video) is called in this step
LoadVideoCalled == nSessions' = nSessions + 1

\* C36: when loadVideo(v) has been called the manager's currentVideoId is
\* v.id, also for a video that the filtered view does not hold.
C36_SelectionFollowsPlayer ==
    [][LoadVideoCalled => currentVideoId' = sessVideo'[nSessions'].id]_vars

\* the current entry stands in the view, at PlaceOfCurrent
CurrentInView == \E k \in 1..Len(filteredVideos) : filteredVideos[k].id = currentVideoId
PlaceOfCurrent == CHOOSE k \in 1..Len(filteredVideos) : filteredVideos[k].id = currentVideoId

\* the entry after the current one, the first when the current one is the
\* last or is not in the view
EntryAfterCurrent ==
    IF CurrentInView /\ PlaceOfCurrent < Len(filteredVideos)
    THEN filteredVideos[PlaceOfCurrent + 1] ELSE filteredVideos[1]

\* the entry before the current one, the last when the current one is the
\* first or is not in the view
EntryBeforeCurrent ==
    IF CurrentInView /\ PlaceOfCurrent > 1
    THEN filteredVideos[PlaceOfCurrent - 1] ELSE filteredVideos[Len(filteredVideos)]

\* the id is that of an entry of the view
IdInView(id) == \E k \in 1..Len(filteredVideos) : filteredVideos[k].id = id

\* C38: with a non-empty view the next button selects the entry after the
\* current one and the previous button the one before, wrapping around and
\* starting from the ends when the current entry is not in the view, and
\* the selection is then an entry of the view; with an empty view nextVideo
\* and prevVideo return null and the click changes nothing.
C38_NavigationWraps ==
    /\ [](filteredVideos = <<>> =>
            nextVideo(ManagerNow) = NoVideo /\ prevVideo(ManagerNow) = NoVideo)
    /\ [][/\ NextClick =>
               IF filteredVideos = <<>> THEN UNCHANGED vars
               ELSE /\ nextVideo(ManagerNow) = EntryAfterCurrent
                    /\ currentVideoId' = EntryAfterCurrent.id
                    /\ IdInView(currentVideoId')
          /\ PrevClick =>
               IF filteredVideos = <<>> THEN UNCHANGED vars
               ELSE /\ prevVideo(ManagerNow) = EntryBeforeCurrent
                    /\ currentVideoId' = EntryBeforeCurrent.id
                    /\ IdInView(currentVideoId')
         ]_vars

\* two clicks on the navigation buttons: the first, with no entry selected,
\* went to the last entry of the view, the second from the last to the first
C38_Witness ==
    /\ nSessions = 2
    /\ now = 5
    /\ Len(filteredVideos) = 2
    /\ sessVideo[1] = filteredVideos[2]
    /\ sessVideo[2] = filteredVideos[1]
    /\ currentVideoId = filteredVideos[1].id

-----------------------------------------------------------------------------
(* The claim about the candidate index *)

\* the viewer is loading one of the candidates of currentVideoData
LoadingOwnCandidate ==
    /\ currentVideoData # NoVideo
    /\ currentVideoData.type # "direct"
    /\ viewerPending
    /\ \E i \in 1..Len(EmbedUrlsOf(currentVideoData)) :
          playerSrc = EmbedUrlsOf(currentVideoData)[i]

\* C37: currentEmbedIndex is at least 0 and at most the number of embed
\* URLs of currentVideoData, and while the viewer loads a candidate of
\* currentVideoData its source is the embed URL at currentEmbedIndex.
C37_IndexMatchesViewer ==
    /\ currentEmbedIndex >= 0
    /\ currentVideoData # NoVideo
          => currentEmbedIndex <= Len(EmbedUrlsOf(currentVideoData))
    /\ LoadingOwnCandidate
          => /\ currentEmbedIndex < Len(EmbedUrlsOf(currentVideoData))
             /\ playerSrc = EmbedUrlsOf(currentVideoData)[currentEmbedIndex + 1]

-----------------------------------------------------------------------------
(* The claim about the view *)

\* neither loadVideos nor addCustomVideo is under way
NoOperation == loadPc = "idle" /\ addPc = "idle"

\* C39: whenever no operation is in progress the view holds only entries of
\* the catalog, all of the platform of the filter when one is set, and is
\* what filtering, searching and sorting the catalog under the current
\* settings gives.
C39_ViewDerived ==
    NoOperation =>
        /\ \A k \in 1..Len(filteredVideos) : filteredVideos[k] \in Range(allVideos)
        /\ currentFilter # "all" =>
              \A k \in 1..Len(filteredVideos) : filteredVideos[k].type = currentFilter
        /\ ~ViewThrows(allVideos) =>
              filteredVideos = applyFiltersAndSearch(allVideos, currentFilter,
                                                     currentSearchTerm, currentSortOption)

-----------------------------------------------------------------------------
(* The claim about concurrent loads *)

\* handleRequest issues the first fetch of a load in this step
LoadRequestIssued == req'.load # req.load /\ req'.load = FirstFetch

\* C40: isLoading is true exactly while a loadVideos call is suspended on
\* the store; a call made meanwhile issues no request and leaves the
\* catalog, which it returns, as it is; a load request is issued only when
\* no load is under way; and isLoading is false when a load has ended,
\* whether the store answered or refused.
C40_OneLoadInFlight ==
    /\ [](isLoading <=> loadPc = "waiting")
    /\ [][/\ (LoadVideosCall /\ isLoading)
               => UNCHANGED <<req, allVideos, filteredVideos, isLoading, loadPc>>
          /\ LoadRequestIssued
               => /\ ~isLoading
                  /\ req.load.state \in {"idle", "resolved", "rejected"}
          /\ (DeliverLoad /\ loadPc' = "idle") => ~isLoading'
         ]_vars

\* a load has ended after the store refused its request and every retry
C40_Witness ==
    /\ req.load.state = "rejected"
    /\ req.load.fetches = RetryCount + 1
    /\ loadPc = "idle"
    /\ ~isLoading
    /\ allVideos = <<>>

=============================================================================
